---- MODULE Spec2Model ----
(***************************************************************************)
(* Sentient Trader.                                                        *)
(*                                                                         *)
(* Spec: the session manager of the API (src/main.py): the live episode    *)
(* registry, the per-episode WebSocket fan-out lists, and the start /      *)
(* step / end / subscribe handlers.  The handlers are asyncio coroutines:  *)
(* code between two awaits runs atomically, and at every await any other   *)
(* ready coroutine may run.  Each action is one such atomic segment.       *)
(*                                                                         *)
(* EnvSpec: the actor-simulation environment (src/env_finrl.py), a         *)
(* single-threaded object driven by reset and step: one step under every   *)
(* kind of forecast reply.  EpisodeSpec: whole episodes of that            *)
(* environment or of TradingEnv (src/env.py), under coarser forecasts.     *)
(* ActorSpec: the actor simulation alone, over longer runs of steps.       *)
(*                                                                         *)
(* ReportSpec: the report and agent statistics handlers on a stored        *)
(* database (src/report.py, src/main.py).                                  *)
(*                                                                         *)
(* The other specifications apply one function of the program to inputs    *)
(* drawn from a bounded set: fn_in holds the arguments, fn_out the result. *)
(*                                                                         *)
(* Trust scores (PPI) are integers in tenths of a point, regrets in tenths,*)
(* capital in millionths of a BTC.                                         *)
(***************************************************************************)
EXTENDS Integers, Sequences, FiniteSets, TLC

\* ---------------------------------------------------------------- bounds
NumStartCalls == 2
NumStepCalls == 2
NumEndCalls == 2
NumSubs == 2
\* step, end and subscribe requests issued in one run
MaxRequests == 4

EpisodeIds == 1..NumStartCalls
StepCalls == 1..NumStepCalls
EndCalls == 1..NumEndCalls
WS == 1..NumSubs
AgentNames == {"Agent-Alpha"}

\* ------------------------------------------------------ program constants
PPI_MIN == 0
PPI_MAX == 1000
PPI_DEFAULT == 750
PpiAbsent == -1

ActionTypes == {"buy", "sell", "hold"}

VARIABLES
    supabase,               \* TRUE iff the store client is configured
    store_agents,           \* agents table: name -> row
    store_episodes,         \* episodes table: sequence of rows, id = index
    store_actions,          \* actions table: set of rows
    active_episodes,        \* keys of the active_episodes dict
    episode_data,           \* the dict objects stored in active_episodes
    conn_keys,              \* keys of the websocket_connections dict
    conn_list,              \* the list objects stored in websocket_connections
    start_calls,            \* number of start requests made
    last_start,             \* outcome of the latest start request
    step_calls,             \* one record per take_step coroutine
    end_calls,              \* one record per end_episode coroutine
    subs,                   \* one record per websocket_episode coroutine
    env_class,              \* class of the environment object of the run
    actor_regrets,          \* SentientTraderFinRLEnv.actor_regrets
    capital,                \* the environment's capital
    trades,                 \* the environment's trades
    env_current_step,       \* SentientTraderFinRLEnv.current_step,
                            \* TradingEnv.step_count
    nash_equilibrium_count, \* SentientTraderFinRLEnv.nash_equilibrium_count
    actor_inventory,        \* SentientTraderFinRLEnv.actor_inventory
    actor_last_action,      \* SentientTraderFinRLEnv.actor_last_action
    ppi_silos,              \* SentientTraderFinRLEnv.ppi_silos
    price,                  \* SentientTraderFinRLEnv.price
    max_capital,            \* SentientTraderFinRLEnv.max_capital
    pnl_history,            \* SentientTraderFinRLEnv.pnl_history
    drawdown_history,       \* SentientTraderFinRLEnv.drawdown_history
    info,                   \* what the latest step computed for its info dict
    fn_in,                  \* arguments of the function under study
    fn_out,                 \* its result, once applied
    store_reports,          \* reports table: sequence of rows
    report_reply            \* latest report or stats request and its response

vars == <<supabase, store_agents, store_episodes, store_actions,
          active_episodes, episode_data, conn_keys, conn_list,
          start_calls, last_start, step_calls, end_calls, subs>>
env_vars == <<env_class, actor_regrets, capital, trades, env_current_step,
              nash_equilibrium_count, actor_inventory, actor_last_action,
              ppi_silos, price, max_capital, pnl_history, drawdown_history,
              info>>
\* the fields modelled for SentientTraderFinRLEnv only
actor_fields == <<actor_regrets, nash_equilibrium_count, actor_inventory,
                  actor_last_action, ppi_silos, price, max_capital,
                  pnl_history, drawdown_history>>
fn_vars == <<fn_in, fn_out>>
report_vars == <<store_reports, report_reply>>

Range(s) == {s[i] : i \in 1..Len(s)}

\* ------------------------------------------- the environment, constructed
\* the six entries of ACTORS, in the order the loops enumerate them
NumActors == 6
Actors == 1..NumActors
\* self.capital = 1.0
CAPITAL_ONE == 1000000
NoInfo == [action |-> "none", regret_blocked |-> FALSE, nash_stable |-> FALSE,
           price |-> 0, terminated |-> FALSE, truncated |-> FALSE,
           raised |-> FALSE]
\* the indices of ACTORS: retail, whale, hft, etf, arb, you
RETAIL == 1
WHALE == 2
HFT == 3
ETF == 4
ARB == 5
YOU == 6
\* np.array([0.1, 26.0, 0.5, 100.0, 1.0, 1.0]), in hundredths of a BTC
InitialInventory == <<10, 2600, 50, 10000, 100, 100>>
\* np.zeros(6), np.zeros(7)
NoLastActions == [i \in Actors |-> 0]
NumSilos == 7
NoSilos == [k \in 1..NumSilos |-> 0]
\* self.price = 112000.0, in units of 11200 dollars
PRICE_CONSTRUCTED == 10
\* self.max_capital = 1.0 is compared with capital * price, a dollar value.
\* Values are counted in units of 0.0112 dollars (a millionth of a BTC at a
\* price of one unit): 1.0 dollar is 89.3 units, which max() tells from
\* every whole value as 90 does.
MAX_CAPITAL_ONE == 90

\* the fields modelled for SentientTraderFinRLEnv only, as __init__ sets
\* them
ActorFieldsConstructed ==
    /\ actor_regrets = [i \in Actors |-> 0]
    /\ nash_equilibrium_count = 0
    /\ actor_inventory = InitialInventory
    /\ actor_last_action = NoLastActions
    /\ ppi_silos = NoSilos
    /\ price = PRICE_CONSTRUCTED
    /\ max_capital = MAX_CAPITAL_ONE
    /\ pnl_history = <<>>
    /\ drawdown_history = <<>>

\* SentientTraderFinRLEnv.__init__
EnvConstructed ==
    /\ env_class = "SentientTraderFinRLEnv"
    /\ ActorFieldsConstructed
    /\ capital = CAPITAL_ONE
    /\ trades = <<>>
    /\ env_current_step = 0
    /\ info = NoInfo

\* no function is under study
NoCall == [fn |-> "none"]
FnIdle == fn_in = NoCall /\ fn_out = NoCall

\* no report was stored, no report or stats request was made
NoReply == [op |-> "none", id |-> 0, status |-> 0, store_failed |-> FALSE]
ReportIdle == store_reports = <<>> /\ report_reply = NoReply

\* ------------------------------------------------------------- messages
StepEvent(k) == [type |-> "step", step |-> k]
EndEvent == [type |-> "end", step |-> 0]
ConnectedMsg == [type |-> "connected", step |-> 0]
ErrorMsg == [type |-> "error", step |-> 0]

\* ------------------------------------------------------- pure functions
\* action_values of blend_actions
ActionValue(a) == IF a = "buy" THEN 1 ELSE IF a = "sell" THEN -1 ELSE 0

\* blend_actions, the kind only: thresholds 0.3 / -0.3 on (rl + grok) / 2,
\* compared here as 10 * (rl + grok) against 6 / -6
BlendType(rl, grok) ==
    LET twice == ActionValue(rl) + ActionValue(grok)
    IN IF 10 * twice > 6 THEN "buy"
       ELSE IF 10 * twice < -6 THEN "sell"
       ELSE "hold"

\* get_grok_decision: the oracle's vote, or the fallback hold
GrokOutcomes == {"buy", "sell", "hold", "fallback"}
GrokType(o) == IF o = "fallback" THEN "hold" ELSE o

\* ppi_delta = reward * 2 with reward drawn at random from a range that
\* depends on the action kind (times the size for buy and sell); the ends
\* of the range at size 0.2 stand for the draw (tenths of a point)
DeltaSamples(a) ==
    IF a = "buy" THEN {-2, 6}
    ELSE IF a = "sell" THEN {-2, 8}
    ELSE {-2, 2}
Deltas == UNION {DeltaSamples(a) : a \in ActionTypes}

\* max(0, min(100, x))
ClampPpi(x) == IF x < PPI_MIN THEN PPI_MIN ELSE IF x > PPI_MAX THEN PPI_MAX ELSE x

\* episode_data.get("ppi_score", 75.0)
GetPpi(d) == IF d.ppi_score = PpiAbsent THEN PPI_DEFAULT ELSE d.ppi_score

\* list.remove(x): drops the first occurrence
RemoveFirst(list, x) ==
    LET i == CHOOSE i \in 1..Len(list) :
                 list[i] = x /\ \A j \in 1..(i - 1) : list[j] # x
    IN SubSeq(list, 1, i - 1) \o SubSeq(list, i + 1, Len(list))

\* the clean-up loop of broadcast_to_episode: remove each failed socket in
\* turn; list.remove raises ValueError on a socket that is no longer there
RECURSIVE RemoveEach(_, _)
RemoveEach(list, disc) ==
    IF disc = <<>> THEN [ok |-> TRUE, list |-> list]
    ELSE IF Head(disc) \notin Range(list) THEN [ok |-> FALSE, list |-> list]
    ELSE RemoveEach(RemoveFirst(list, Head(disc)), Tail(disc))

\* websocket.send_json: raises unless the connection is open
SendOk(ws) == subs[ws].conn = "open"
SendJson(s, ws, msg) ==
    IF s[ws].conn = "open" THEN [s EXCEPT ![ws].inbox = Append(@, msg)] ELSE s

\* the for loop of broadcast_to_episode / of the close loop: it is the
\* number of elements the list iterator has passed
HasNext(e, it) == it < Len(conn_list[e])
NextWs(e, it) == conn_list[e][it + 1]

\* exact rationals, for the running averages of the agent row
RECURSIVE Gcd(_, _)
Gcd(a, b) == IF b = 0 THEN a ELSE Gcd(b, a % b)
Abs(x) == IF x < 0 THEN -x ELSE x
\* n / d in lowest terms (d > 0); d = 0 marks a missing value
Rat(n, d) ==
    IF d = 0 THEN [num |-> 0, den |-> 0]
    ELSE [num |-> n \div Gcd(Abs(n), d), den |-> d \div Gcd(Abs(n), d)]
RatAdd(a, b) == Rat(a.num * b.den + b.num * a.den, a.den * b.den)
RatMulInt(a, k) == Rat(a.num * k, a.den)
RatDivInt(a, k) == Rat(a.num, a.den * k)
RatEq(a, b) == a.num * b.den = b.num * a.den

\* a column of the agent row that is NULL
RatNone == Rat(0, 0)
\* (x or 0): None and 0 both give 0
OrZero(x) == IF x.den = 0 \/ x.num = 0 THEN Rat(0, 1) ELSE x

\* variant: the old average is weighted with n instead of n - 1
RunningAverageOverCounted(old, n, value) ==
    RatDivInt(RatAdd(RatMulInt(OrZero(old), n), value), n)

\* ((current_agent[m] or 0) * (episodes_count - 1) + value) / episodes_count
RunningAverage(old, n, value) ==
    RatDivInt(RatAdd(RatMulInt(OrZero(old), n - 1), value), n)

\* ------------------------------------------------------------------ Init
IdleStep == [pc |-> "idle", ep |-> 0, current_ppi |-> 0, step |-> 0,
             it |-> 0, disconnected |-> <<>>, after_end |-> FALSE]
IdleEnd == [pc |-> "idle", ep |-> 0, it |-> 0, disconnected |-> <<>>,
            err |-> "none"]
NewSub == [state |-> "new", ep |-> 0, conn |-> "open", inbox |-> <<>>,
           applied_at_join |-> 0, returned_at_join |-> {}]
\* no row of the name yet; a new row has no averages
NoAgent == [episodes_trained |-> 0, updates |-> 0, ppi_score |-> RatNone]
NoEpisode == [agent_id |-> "none", current_step |-> 0,
              ppi_score |-> PpiAbsent, rl_steps |-> 0]

SessionInit ==
    /\ supabase \in BOOLEAN
    /\ store_agents = [n \in AgentNames |-> NoAgent]
    /\ store_episodes = <<>>
    /\ store_actions = {}
    /\ active_episodes = {}
    /\ episode_data = [e \in EpisodeIds |-> NoEpisode]
    /\ conn_keys = {}
    /\ conn_list = [e \in EpisodeIds |-> <<>>]
    /\ start_calls = 0
    /\ last_start = [fault |-> 0, status |-> "none", episode_id |-> 0]
    /\ step_calls = [t \in StepCalls |-> IdleStep]
    /\ end_calls = [c \in EndCalls |-> IdleEnd]
    /\ subs = [w \in WS |-> NewSub]

\* the session manager alone: no environment object, no function under study
Init == SessionInit /\ EnvConstructed /\ FnIdle /\ ReportIdle

\* number of step, end and subscribe requests issued so far
Issued ==
    Cardinality({t \in StepCalls : step_calls[t].pc # "idle"})
    + Cardinality({c \in EndCalls : end_calls[c].pc # "idle"})
    + Cardinality({w \in WS : subs[w].state # "new"})

\* the requests of a run: MaxRequests with one episode, two less once a
\* second episode was started
RequestBudget == IF start_calls <= 1 THEN MaxRequests ELSE MaxRequests - 2

\* ----------------------------------------------------------- start_episode
\* store faults of one start request: 0 none, 1 the agent select fails,
\* 2 the agent update/insert fails, 3 the episodes select fails,
\* 4 the episode insert fails
StartFaults == 0..4

\* variant: a failed agent update is logged and the start goes on
StartAbortsExceptAgentUpdate(fault) == fault \in {1, 3, 4}

\* the try block of start_episode is left by the first store call that raises
StartAborts(fault) == fault # 0

\* agents table after the agent update (existing name) or insert (new name)
AgentCounted(name) ==
    [store_agents EXCEPT ![name].episodes_trained = @ + 1]

\* episode_number = number of the agent's episode rows + 1
NextEpisodeNum(name) ==
    Cardinality({i \in 1..Len(store_episodes) : store_episodes[i].agent_id = name}) + 1

StartEpisode(name, fault) ==
    /\ start_calls < NumStartCalls
    /\ start_calls >= 1 => Issued <= MaxRequests - 2
    /\ start_calls' = start_calls + 1
    /\ UNCHANGED <<env_vars, fn_vars, report_vars, supabase, store_actions, step_calls, end_calls, subs>>
    /\ IF ~supabase
       THEN /\ last_start' = [fault |-> 5, status |-> "error", episode_id |-> 0]
            /\ UNCHANGED <<store_agents, store_episodes, active_episodes,
                           episode_data, conn_keys, conn_list>>
       ELSE LET episode_id == Len(store_episodes) + 1
            IN /\ store_agents' = IF fault \in {1, 2} THEN store_agents
                                  ELSE AgentCounted(name)
               /\ IF StartAborts(fault)
                  THEN /\ last_start' = [fault |-> fault, status |-> "error",
                                         episode_id |-> 0]
                       /\ UNCHANGED <<store_episodes, active_episodes,
                                      episode_data, conn_keys, conn_list>>
                  ELSE /\ store_episodes' = Append(store_episodes,
                              [agent_id |-> name,
                               episode_number |-> NextEpisodeNum(name),
                               final |-> FALSE, ppi_score |-> 0])
                       /\ active_episodes' = active_episodes \cup {episode_id}
                       /\ episode_data' = [episode_data EXCEPT ![episode_id] =
                              [agent_id |-> name, current_step |-> 0,
                               ppi_score |-> PpiAbsent, rl_steps |-> 0]]
                       /\ conn_keys' = conn_keys \cup {episode_id}
                       /\ conn_list' = [conn_list EXCEPT ![episode_id] = <<>>]
                       /\ last_start' = [fault |-> fault, status |-> "ok",
                                         episode_id |-> episode_id]

\* --------------------------------------------------------------- take_step
\* variant: the guard looks the episode up in the store, not in the registry
StepIsStored(e) == e \in 1..Len(store_episodes)

\* the guard of take_step: episode_id in active_episodes
StepIsLive(e) == e \in active_episodes

\* episodes whose end request has returned successfully
Ended == {end_calls[c].ep : c \in {c \in EndCalls : end_calls[c].pc = "done"}}

\* lines 346-361: the liveness check, the policy's vote, the read of the
\* trust score, up to the await of the oracle call.  The vote is drawn at
\* random from the request alone; its value is chosen in StepApply, where
\* it is first used.  Request slot t is used after slot t - 1.
StepBegin(t, e) ==
    /\ step_calls[t].pc = "idle"
    /\ t > 1 => step_calls[t - 1].pc # "idle"
    /\ Issued < RequestBudget
    /\ IF ~StepIsLive(e)
       THEN /\ step_calls' = [step_calls EXCEPT ![t].pc = "notfound", ![t].ep = e,
                                                ![t].after_end = e \in Ended]
            /\ UNCHANGED episode_data
       ELSE /\ step_calls' = [step_calls EXCEPT ![t].pc = "grok", ![t].ep = e,
                                 ![t].current_ppi = GetPpi(episode_data[e]),
                                 ![t].after_end = e \in Ended]
            /\ episode_data' = [episode_data EXCEPT ![e].rl_steps = @ + 1]
    /\ UNCHANGED <<env_vars, fn_vars, report_vars, supabase, store_agents, store_episodes, store_actions,
                   active_episodes, conn_keys, conn_list, start_calls,
                   last_start, end_calls, subs>>

\* the trust score written by a step: computed from the value read before
\* the oracle call
NewPpi(current_ppi, delta) == ClampPpi(current_ppi + delta)

\* lines 361-411: the oracle call returns, the votes are blended, the step
\* counter and the trust score are written, the action row is inserted
\* (best effort), and the broadcast runs up to its first await
StepApply(t, rl, grok, delta, saved) ==
    LET call == step_calls[t]
        e == call.ep
        action == BlendType(rl, GrokType(grok))
        current_step == episode_data[e].current_step + 1
        applied == [call EXCEPT !.step = current_step, !.current_ppi = 0]
    IN /\ call.pc = "grok"
       /\ delta \in DeltaSamples(action)
       /\ episode_data' = [episode_data EXCEPT
              ![e].current_step = current_step,
              ![e].ppi_score = NewPpi(call.current_ppi, delta)]
       /\ store_actions' = IF supabase /\ saved
                           THEN store_actions \cup
                                  {[episode_id |-> e, step |-> current_step]}
                           ELSE store_actions
       /\ IF e \notin conn_keys \/ ~HasNext(e, 0)
          THEN /\ step_calls' = [step_calls EXCEPT ![t] =
                                    [applied EXCEPT !.pc = "done"]]
               /\ UNCHANGED subs
          ELSE LET ws == NextWs(e, 0)
               IN /\ subs' = SendJson(subs, ws, StepEvent(current_step))
                  /\ step_calls' = [step_calls EXCEPT ![t] =
                        [applied EXCEPT !.pc = "bcast", !.it = 1,
                            !.disconnected = IF SendOk(ws) THEN <<>> ELSE <<ws>>]]
       /\ UNCHANGED <<env_vars, fn_vars, report_vars, supabase, store_agents, store_episodes, active_episodes,
                      conn_keys, conn_list, start_calls, last_start, end_calls>>

\* broadcast_to_episode resumed after the await of a send: the next send,
\* or the clean-up of the failed sockets and the return of the step
StepBroadcast(t) ==
    LET call == step_calls[t]
        e == call.ep
    IN /\ call.pc = "bcast"
       /\ IF HasNext(e, call.it)
          THEN LET ws == NextWs(e, call.it)
               IN /\ subs' = SendJson(subs, ws, StepEvent(call.step))
                  /\ step_calls' = [step_calls EXCEPT ![t].it = @ + 1,
                        ![t].disconnected =
                            IF SendOk(ws) THEN @ ELSE Append(@, ws)]
                  /\ UNCHANGED conn_list
          ELSE /\ UNCHANGED subs
               /\ IF call.disconnected = <<>>
                  THEN /\ step_calls' = [step_calls EXCEPT ![t].pc = "done",
                                                           ![t].it = 0]
                       /\ UNCHANGED conn_list
                  ELSE IF e \notin conn_keys
                  THEN /\ step_calls' = [step_calls EXCEPT ![t].pc = "error",
                                            ![t].it = 0,
                                            ![t].disconnected = <<>>]
                       /\ UNCHANGED conn_list
                  ELSE LET r == RemoveEach(conn_list[e], call.disconnected)
                       IN /\ conn_list' = [conn_list EXCEPT ![e] = r.list]
                          /\ step_calls' = [step_calls EXCEPT
                                ![t].pc = IF r.ok THEN "done" ELSE "error",
                                ![t].it = 0, ![t].disconnected = <<>>]
       /\ UNCHANGED <<env_vars, fn_vars, report_vars, supabase, store_agents, store_episodes, store_actions,
                      active_episodes, episode_data, conn_keys, start_calls,
                      last_start, end_calls>>

\* ------------------------------------------------------------- end_episode
\* store faults of one end request: 0 none, 1 the episode update fails,
\* 2 the agent select fails, 3 the agent update fails
EndFaults == 0..3

\* websocket.close(): an exception on a connection that is already gone is
\* swallowed by the bare except
CloseWs(s, ws) ==
    IF s[ws].conn = "open" THEN [s EXCEPT ![ws].conn = "closed"] ELSE s

\* variant: the registry entry is left in place
EndKeepsActive(e) == active_episodes

\* del active_episodes[episode_id]
EndDelActive(e) == active_episodes \ {e}

\* lines 475-484 up to the first await: the episode is deleted from the
\* registry and the close loop starts on the (cleaned) fan-out list
EndCleanUp(c, e, list, calls) ==
    IF e \notin active_episodes
    THEN /\ end_calls' = [calls EXCEPT ![c].pc = "error", ![c].it = 0,
                              ![c].err = "KeyError", ![c].disconnected = <<>>]
         /\ UNCHANGED <<active_episodes, conn_keys, subs>>
    ELSE /\ active_episodes' = EndDelActive(e)
         /\ IF e \notin conn_keys
            THEN /\ end_calls' = [calls EXCEPT ![c].pc = "done", ![c].it = 0,
                                      ![c].disconnected = <<>>]
                 /\ UNCHANGED <<conn_keys, subs>>
            ELSE IF Len(list) = 0
            THEN /\ conn_keys' = conn_keys \ {e}
                 /\ end_calls' = [calls EXCEPT ![c].pc = "done", ![c].it = 0,
                                      ![c].disconnected = <<>>]
                 /\ UNCHANGED subs
            ELSE /\ subs' = CloseWs(subs, list[1])
                 /\ end_calls' = [calls EXCEPT ![c].pc = "closing",
                                      ![c].it = 1, ![c].disconnected = <<>>]
                 /\ UNCHANGED conn_keys

\* request.ppi_score of the end requests for episode e
EndPpiScore(e) == 20 * e

\* the agent row after the update of the running averages, of which the
\* trust score is kept here; irr and sharpe are written by the same
\* statement with the same expression
AgentAveraged(name, ppi_score) ==
    [store_agents EXCEPT
        ![name].updates = @ + 1,
        ![name].ppi_score =
            RunningAverage(@, store_agents[name].episodes_trained,
                           Rat(ppi_score, 1))]

\* variant: only a failed episode update aborts the end; a failure of the
\* agent statistics is swallowed
EndAbortsOnEpisodeUpdate(fault) == fault = 1

\* the try block of end_episode is left by the first store call that raises
EndAborts(fault) == fault # 0

\* lines 423-464: the liveness check, the store writes on the critical
\* path, and the broadcast of the end event up to its first await
EndBegin(c, e, fault) ==
    /\ end_calls[c].pc = "idle"
    /\ c > 1 => end_calls[c - 1].pc # "idle"
    /\ Issued < RequestBudget
    /\ UNCHANGED <<env_vars, fn_vars, report_vars, supabase, store_actions, episode_data, start_calls,
                   last_start, step_calls, conn_list>>
    /\ IF e \notin active_episodes
       THEN /\ end_calls' = [end_calls EXCEPT ![c].pc = "notfound", ![c].ep = e]
            /\ UNCHANGED <<store_agents, store_episodes, active_episodes,
                           conn_keys, subs>>
       ELSE IF ~supabase
       THEN /\ end_calls' = [end_calls EXCEPT ![c].pc = "error", ![c].ep = e,
                                 ![c].err = "store"]
            /\ UNCHANGED <<store_agents, store_episodes, active_episodes,
                           conn_keys, subs>>
       ELSE /\ store_episodes' = IF fault = 1 THEN store_episodes
                                 ELSE [store_episodes EXCEPT
                                         ![e].final = TRUE,
                                         ![e].ppi_score = EndPpiScore(e)]
            /\ store_agents' = IF fault # 0 THEN store_agents
                               ELSE AgentAveraged(episode_data[e].agent_id,
                                                  EndPpiScore(e))
            /\ IF EndAborts(fault)
               THEN /\ end_calls' = [end_calls EXCEPT ![c].pc = "error",
                                         ![c].ep = e, ![c].err = "store"]
                    /\ UNCHANGED <<active_episodes, conn_keys, subs>>
               ELSE IF e \notin conn_keys \/ ~HasNext(e, 0)
               THEN EndCleanUp(c, e, conn_list[e],
                               [end_calls EXCEPT ![c].ep = e])
               ELSE LET ws == NextWs(e, 0)
                    IN /\ subs' = SendJson(subs, ws, EndEvent)
                       /\ end_calls' = [end_calls EXCEPT ![c].pc = "bcast",
                             ![c].ep = e, ![c].it = 1,
                             ![c].disconnected = IF SendOk(ws) THEN <<>> ELSE <<ws>>]
                       /\ UNCHANGED <<active_episodes, conn_keys>>

\* broadcast_to_episode resumed inside end_episode: the next send, or the
\* clean-up of the failed sockets followed by lines 475-484; an exception
\* of the clean-up is caught by the handler's except and answered with 500
EndBroadcast(c) ==
    LET call == end_calls[c]
        e == call.ep
    IN /\ call.pc = "bcast"
       /\ UNCHANGED <<env_vars, fn_vars, report_vars, supabase, store_agents, store_episodes, store_actions,
                      episode_data, start_calls, last_start, step_calls>>
       /\ IF HasNext(e, call.it)
          THEN LET ws == NextWs(e, call.it)
               IN /\ subs' = SendJson(subs, ws, EndEvent)
                  /\ end_calls' = [end_calls EXCEPT ![c].it = @ + 1,
                        ![c].disconnected =
                            IF SendOk(ws) THEN @ ELSE Append(@, ws)]
                  /\ UNCHANGED <<active_episodes, conn_keys, conn_list>>
          ELSE IF call.disconnected = <<>>
          THEN /\ UNCHANGED conn_list
               /\ EndCleanUp(c, e, conn_list[e], end_calls)
          ELSE IF e \notin conn_keys
          THEN /\ end_calls' = [end_calls EXCEPT ![c].pc = "error", ![c].it = 0,
                                    ![c].err = "KeyError",
                                    ![c].disconnected = <<>>]
               /\ UNCHANGED <<active_episodes, conn_keys, conn_list, subs>>
          ELSE LET r == RemoveEach(conn_list[e], call.disconnected)
               IN /\ conn_list' = [conn_list EXCEPT ![e] = r.list]
                  /\ IF r.ok
                     THEN EndCleanUp(c, e, r.list, end_calls)
                     ELSE /\ end_calls' = [end_calls EXCEPT ![c].pc = "error", ![c].it = 0,
                                               ![c].err = "ValueError",
                                               ![c].disconnected = <<>>]
                          /\ UNCHANGED <<active_episodes, conn_keys, subs>>

\* the close loop resumed after the await of a close: the next close, or
\* del websocket_connections[episode_id] and the response
EndClose(c) ==
    LET call == end_calls[c]
        e == call.ep
    IN /\ call.pc = "closing"
       /\ UNCHANGED <<env_vars, fn_vars, report_vars, supabase, store_agents, store_episodes, store_actions,
                      active_episodes, episode_data, conn_list, start_calls,
                      last_start, step_calls>>
       /\ IF HasNext(e, call.it)
          THEN /\ subs' = CloseWs(subs, NextWs(e, call.it))
               /\ end_calls' = [end_calls EXCEPT ![c].it = @ + 1]
               /\ UNCHANGED conn_keys
          ELSE /\ UNCHANGED subs
               /\ IF e \in conn_keys
                  THEN /\ conn_keys' = conn_keys \ {e}
                       /\ end_calls' = [end_calls EXCEPT ![c].pc = "done",
                                                         ![c].it = 0]
                  ELSE /\ end_calls' = [end_calls EXCEPT ![c].pc = "error",
                                            ![c].it = 0, ![c].err = "KeyError"]
                       /\ UNCHANGED conn_keys

\* ----------------------------------------------------- get_active_episodes
\* variant: every stored episode is listed
GetActiveEpisodesStored ==
    [e \in 1..Len(store_episodes) |-> episode_data[e].current_step]

\* the list returned by get_active_episodes: one entry per key of
\* active_episodes, with the entry's current_step
GetActiveEpisodes ==
    [e \in active_episodes |-> episode_data[e].current_step]

\* ------------------------------------------------------- websocket_episode
\* variant: the guard tests the subscriber lists, not the registry
SubscribeHasList(e) == e \in conn_keys

\* the guard of websocket_episode: episode_id in active_episodes
SubscribeIsLive(e) == e \in active_episodes

\* variant: the latest step event is replayed to a new subscriber
InitialMessagesWithReplay(e) ==
    IF episode_data[e].current_step > 0
    THEN <<ConnectedMsg, StepEvent(episode_data[e].current_step)>>
    ELSE <<ConnectedMsg>>

\* what a newly registered subscriber is sent by its own handler
InitialMessages(e) == <<ConnectedMsg>>

\* step indices of the episode whose take_step has left its broadcast
Returned(e) ==
    {step_calls[t].step : t \in {t \in StepCalls :
        /\ step_calls[t].ep = e
        /\ step_calls[t].step > 0
        /\ step_calls[t].pc \in {"done", "error"}}}

\* lines 503-524: accept, the liveness check, the registration and the
\* connected message; a caller for an episode that is not live gets the
\* error message and is closed
Subscribe(ws, e) ==
    /\ subs[ws].state = "new"
    /\ ws > 1 => subs[ws - 1].state # "new"
    /\ Issued < RequestBudget
    /\ UNCHANGED <<env_vars, fn_vars, report_vars, supabase, store_agents, store_episodes, store_actions,
                   active_episodes, episode_data, start_calls, last_start,
                   step_calls, end_calls>>
    /\ IF ~SubscribeIsLive(e)
       THEN /\ subs' = [subs EXCEPT ![ws] = [@ EXCEPT !.state = "rejected",
                           !.ep = e, !.conn = "closed", !.inbox = <<ErrorMsg>>]]
            /\ UNCHANGED <<conn_keys, conn_list>>
       ELSE /\ conn_keys' = conn_keys \cup {e}
            /\ conn_list' = [conn_list EXCEPT ![e] =
                  Append(IF e \in conn_keys THEN @ ELSE <<>>, ws)]
            /\ subs' = [subs EXCEPT ![ws] = [@ EXCEPT !.state = "listening",
                           !.ep = e, !.inbox = InitialMessages(e),
                           !.applied_at_join = episode_data[e].current_step,
                           !.returned_at_join = Returned(e)]]

\* the client goes away: sends to it fail from now on
ClientDisconnect(ws) ==
    /\ subs[ws].state = "listening"
    /\ subs[ws].conn = "open"
    /\ subs' = [subs EXCEPT ![ws].conn = "dead"]
    /\ UNCHANGED <<env_vars, fn_vars, report_vars, supabase, store_agents, store_episodes, store_actions,
                   active_episodes, episode_data, conn_keys, conn_list,
                   start_calls, last_start, step_calls, end_calls>>

\* lines 535-538: receive_text raises WebSocketDisconnect once the
\* connection is gone (left by the client or closed by end_episode); the
\* handler removes its socket from the list, if the list is still there
HandlerDisconnect(ws) ==
    LET e == subs[ws].ep
    IN /\ subs[ws].state = "listening"
       /\ subs[ws].conn # "open"
       /\ subs' = [subs EXCEPT ![ws].state = "exited"]
       /\ conn_list' = IF e \in conn_keys /\ ws \in Range(conn_list[e])
                       THEN [conn_list EXCEPT ![e] = RemoveFirst(@, ws)]
                       ELSE conn_list
       /\ UNCHANGED <<env_vars, fn_vars, report_vars, supabase, store_agents, store_episodes, store_actions,
                      active_episodes, episode_data, conn_keys,
                      start_calls, last_start, step_calls, end_calls>>

\* -------------------------------------------------------------------- Next
Next ==
    \/ \E name \in AgentNames, fault \in StartFaults : StartEpisode(name, fault)
    \/ \E t \in StepCalls, e \in EpisodeIds : StepBegin(t, e)
    \/ \E t \in StepCalls, rl \in ActionTypes, grok \in GrokOutcomes,
          delta \in Deltas, saved \in BOOLEAN : StepApply(t, rl, grok, delta, saved)
    \/ \E t \in StepCalls : StepBroadcast(t)
    \/ \E c \in EndCalls, e \in EpisodeIds, fault \in EndFaults : EndBegin(c, e, fault)
    \/ \E c \in EndCalls : EndBroadcast(c)
    \/ \E c \in EndCalls : EndClose(c)
    \/ \E ws \in WS, e \in EpisodeIds : Subscribe(ws, e)
    \/ \E ws \in WS : ClientDisconnect(ws)
    \/ \E ws \in WS : HandlerDisconnect(ws)

Spec == Init /\ [][Next]_vars

\* ================================================================ AvgSpec
\* The agent statistics written by end_episode (lines 442-461), as a
\* function of the agent row read from the store, the live episode's
\* initial balance and the end request.  Floats are exact rationals.
MaxEpisodesTrained == 4

\* irr = (request.final_pnl / episode_data["initial_balance"]) * 100
Irr(final_pnl, initial_balance) == Rat(final_pnl * 100, initial_balance)

\* sharpe = irr / max(1, request.total_steps / 10)
Sharpe(irr, total_steps) ==
    IF total_steps > 10 THEN Rat(irr.num * 10, irr.den * total_steps) ELSE irr

OldAverages == {RatNone, Rat(0, 1), Rat(10, 1)}
EndStatsInputs ==
    [fn : {"end_stats"},
     episodes_trained : 1..MaxEpisodesTrained,
     irr : OldAverages, sharpe : OldAverages, ppi_score : OldAverages,
     initial_balance : {10000},
     final_pnl : {-500, 2000},
     total_steps : {5, 40},
     request_ppi_score : {0, 20}]

AvgInit ==
    /\ SessionInit /\ supabase
    /\ EnvConstructed
    /\ fn_in \in EndStatsInputs
    /\ fn_out = NoCall
    /\ ReportIdle

\* lines 442-461 of end_episode: the update of the agent row
EndUpdatesAgentStats ==
    /\ fn_in.fn = "end_stats"
    /\ fn_out = NoCall
    /\ LET n == fn_in.episodes_trained
           irr == Irr(fn_in.final_pnl, fn_in.initial_balance)
           sharpe == Sharpe(irr, fn_in.total_steps)
       IN fn_out' = [fn |-> "end_stats",
                     irr |-> RunningAverage(fn_in.irr, n, irr),
                     sharpe |-> RunningAverage(fn_in.sharpe, n, sharpe),
                     ppi_score |-> RunningAverage(fn_in.ppi_score, n,
                                       Rat(fn_in.request_ppi_score, 1))]
    /\ UNCHANGED <<fn_in, vars, env_vars, report_vars>>

AvgNext == EndUpdatesAgentStats

AvgSpec == AvgInit /\ [][AvgNext]_fn_vars

\* =============================================================== GrokSpec
\* The two votes of take_step (lines 354-369): get_grok_decision applied to
\* the reply of the oracle, and blend_actions applied to the policy's vote
\* and the oracle's.  Sizes and confidences are in thousandths.
SIZE_MAX == 1000
GROK_CONFIDENCE == 850
FALLBACK_CONFIDENCE == 500
SizeMissing == -1

\* the Action model: type is one of the three literals, 0 <= size <= 1
ActionIsValid(type, size) == type \in ActionTypes /\ size \in 0..SIZE_MAX

\* variant: the status of the response is not looked at
GrokStatusAny(status) == TRUE

\* if response.status_code == 200
GrokStatusOk(status) == status = 200

\* the try block of get_grok_decision raises: the request fails or times
\* out, the status is not 200, the body is not JSON, a key is missing, or
\* the Action model rejects the values
GrokTryRaises(reply) ==
    \/ reply.transport # "ok"
    \/ ~GrokStatusOk(reply.status)
    \/ ~reply.json
    \/ reply.action = "missing" \/ reply.size = SizeMissing
    \/ ~reply.has_reasoning
    \/ ~ActionIsValid(reply.action, reply.size)

\* the action returned by the except branch
FallbackAction == [type |-> "hold", size |-> 0,
                   confidence |-> FALLBACK_CONFIDENCE,
                   reasoning |-> "[Grok AI - Fallback]"]

GetGrokDecision(reply) ==
    IF GrokTryRaises(reply) THEN FallbackAction
    ELSE [type |-> reply.action, size |-> reply.size,
          confidence |-> GROK_CONFIDENCE, reasoning |-> "[Grok AI]"]

\* round(x, 3) of x = q4 / 4000: the nearest thousandth; exactly between
\* two thousandths the result depends on the binary representation of x,
\* and tie_up says which neighbour it is
Round3(q4, tie_up) ==
    IF q4 % 4 < 2 THEN q4 \div 4
    ELSE IF q4 % 4 > 2 THEN q4 \div 4 + 1
    ELSE IF tie_up THEN q4 \div 4 + 1 ELSE q4 \div 4
IsTie(q4) == q4 % 4 = 2

\* variant: the confidence is not weighted by the agreement
BlendActionsUnweighted(rl, grok, size_up, confidence_up) ==
    [type |-> BlendType(rl.type, grok.type),
     size |-> Round3((rl.size + grok.size) * 2, size_up),
     confidence |-> Round3((rl.confidence + grok.confidence) * 2,
                           confidence_up),
     reasoning |-> "[Hybrid Decision]"]

\* blend_actions
BlendActions(rl, grok, size_up, confidence_up) ==
    LET agreement4 == IF rl.type = grok.type THEN 2 ELSE 1
    IN [type |-> BlendType(rl.type, grok.type),
        size |-> Round3((rl.size + grok.size) * 2, size_up),
        confidence |-> Round3((rl.confidence + grok.confidence) * agreement4,
                              confidence_up),
        reasoning |-> "[Hybrid Decision]"]

\* votes of MockRLAgent.decide_action: a hold has size 0
RlActions ==
    {[type |-> "buy", size |-> 200, confidence |-> 950, reasoning |-> "rl"],
     [type |-> "sell", size |-> 100, confidence |-> 550, reasoning |-> "rl"],
     [type |-> "hold", size |-> 0, confidence |-> 350, reasoning |-> "rl"]}

GrokReplies ==
    [transport : {"ok", "timeout", "error"},
     status : {200, 500},
     json : BOOLEAN,
     action : {"buy", "sell", "hold", "long", "missing"},
     size : {SizeMissing, 0, 300, 1500},
     has_reasoning : BOOLEAN]

GrokInit ==
    /\ SessionInit /\ supabase
    /\ EnvConstructed
    /\ fn_in \in [fn : {"votes"}, rl : RlActions, reply : GrokReplies]
    /\ fn_out = NoCall
    /\ ReportIdle

\* lines 354-369 of take_step
TakeStepVotes(size_up, confidence_up) ==
    /\ fn_in.fn = "votes"
    /\ fn_out = NoCall
    /\ LET grok == GetGrokDecision(fn_in.reply)
       IN /\ size_up => IsTie((fn_in.rl.size + grok.size) * 2)
          /\ confidence_up =>
                IsTie((fn_in.rl.confidence + grok.confidence)
                      * (IF fn_in.rl.type = grok.type THEN 2 ELSE 1))
          /\ fn_out' = [fn |-> "votes", grok |-> grok,
                        action |-> BlendActions(fn_in.rl, grok,
                                                size_up, confidence_up)]
    /\ UNCHANGED <<fn_in, vars, env_vars, report_vars>>

GrokNext == \E size_up, confidence_up \in BOOLEAN :
                TakeStepVotes(size_up, confidence_up)

GrokSpec == GrokInit /\ [][GrokNext]_fn_vars

\* ================================================================ EnvSpec
\* SentientTraderFinRLEnv (src/env_finrl.py).
\* steps taken between two resets
MaxEnvSteps == 1

REGRET_MIN == 0
REGRET_MAX == 10
REGRET_GATE == 7
REGRET_DEFAULT == 5
RegretMissing == -100
EnvActions == 0..8

\* np.clip(x, 0, 1)
ClipRegret(x) ==
    IF x < REGRET_MIN THEN REGRET_MIN ELSE IF x > REGRET_MAX THEN REGRET_MAX ELSE x

\* What one call of the regret forecast does: "ok" is a 200 response whose
\* body is a JSON object (regret is its "regret" entry), "status" is a
\* response with another status, "error" is anything that raises inside
\* the try (no connection, timeout, a body that is not JSON, a value that
\* is not a number); noise is what np.random.randn() * 0.1 delivers then.
RegretReplies ==
    [kind : {"ok"}, regret : {RegretMissing, -3, 2, 8, 12}, noise : {0}]
    \cup [kind : {"status"}, regret : {RegretMissing}, noise : {0}]
    \cup [kind : {"error"}, regret : {RegretMissing}, noise : {-3, 2}]

\* one pass of the loop of _update_actor_regrets
UpdateRegret(regret, reply) ==
    IF reply.kind = "error" THEN ClipRegret(regret + reply.noise)
    ELSE IF reply.kind = "ok"
    THEN IF reply.regret = RegretMissing THEN REGRET_DEFAULT ELSE reply.regret
    ELSE regret

\* _update_actor_regrets: replies[i] answers the call made for actor i
UpdateActorRegrets(regrets, replies) ==
    [i \in Actors |-> UpdateRegret(regrets[i], replies[i])]

\* np.max(self.actor_regrets)
RECURSIVE MaxOver(_, _)
MaxOver(f, n) ==
    IF n = 1 THEN f[1]
    ELSE LET m == MaxOver(f, n - 1) IN IF f[n] > m THEN f[n] ELSE m

\* variant: only the regret of the agent's own actor is looked at
RegretBlockedOwn(regrets) == regrets[NumActors] > REGRET_GATE

\* if np.max(self.actor_regrets) > 0.7
RegretBlocked(regrets) == MaxOver(regrets, NumActors) > REGRET_GATE

\* trade_size of an action at a capital (millionths of a BTC, rounded down)
TradeSize(action, cap) ==
    IF action \in 1..3 THEN (cap * <<25, 50, 100>>[action]) \div 10000
    ELSE IF action \in 4..6 THEN (cap * <<25, 50, 100>>[action - 3]) \div 10000
    ELSE IF action = 7 THEN cap \div 10
    ELSE IF action = 8 THEN 20000
    ELSE 0

\* self.capital after the action: long, ramp and trac pay, short receives
CapitalAfter(action, cap) ==
    IF action \in 4..6 THEN cap + TradeSize(action, cap)
    ELSE cap - TradeSize(action, cap)

ActionName(action) ==
    <<"hold", "long_0.25%", "long_0.5%", "long_1.0%", "short_0.25%",
      "short_0.5%", "short_1.0%", "ramp_ez", "trac">>[action + 1]

\* variant: a record is appended for every action, a hold included
TradesAfterAlways(action, cap, step, log) ==
    Append(log, [step |-> step, action |-> ActionName(action),
                 size |-> TradeSize(action, cap)])

\* self.trades after the action: a record is appended if trade_size != 0
TradesAfter(action, cap, step, log) ==
    IF TradeSize(action, cap) # 0
    THEN Append(log, [step |-> step, action |-> ActionName(action),
                      size |-> TradeSize(action, cap)])
    ELSE log

\* np.random.uniform(0.2, 0.5, 6): the ends of the range, one actor apart
\* from the others
ResetRegrets == {2, 5}
ResetVectors ==
    {[i \in Actors |-> IF i = a THEN x ELSE y] :
        a \in Actors, x \in ResetRegrets, y \in ResetRegrets}

\* the replies to the six calls of one step: one actor's call is answered
\* apart from the others
ReplyVectors ==
    {[i \in Actors |-> IF i = a THEN r ELSE q] :
        a \in Actors, r \in RegretReplies, q \in RegretReplies}

EnvInit ==
    /\ SessionInit /\ supabase
    /\ EnvConstructed
    /\ FnIdle
    /\ ReportIdle

\* _generate_mock_data: 288 bars; max_steps = len(self.df) - 1
MOCK_BARS == 288

\* variant: a regret of exactly 0.3 counts as stable
CheckNashEquilibriumClosed(regrets) ==
    Cardinality({i \in Actors : regrets[i] <= 3}) >= 3

\* _check_nash_equilibrium: np.sum(self.actor_regrets < 0.3) >= 3
CheckNashEquilibrium(regrets) ==
    Cardinality({i \in Actors : regrets[i] < 3}) >= 3

\* what the random calls of one step deliver: whale is the outcome of
\* np.random.rand() < 0.05, hft of np.random.choice([0, 1, 2]), arb is 0
\* or the outcome of np.random.choice([1, 2]), belonging the value of
\* np.random.uniform(5.0, 8.0) in tenths
CalmDraw == [whale |-> FALSE, hft |-> 0, arb |-> 0, belonging |-> 50]
\* the draws of the specifications: the calm outcomes and a busy step
Draws == {CalmDraw, [whale |-> TRUE, hft |-> 1, arb |-> 2, belonging |-> 80]}

\* np.random.uniform(3.0, 7.0, 7) of reset, in tenths: the ends of the range
ResetSilos == {[k \in 1..NumSilos |-> 30], [k \in 1..NumSilos |-> 70]}

\* _simulate_actors: actor_last_action[i]; the entry of "you" is set to 0
\* and no other statement of the class writes it
LastActionAfter(i, regret, draws) ==
    IF i = RETAIL THEN (IF regret < 3 THEN 1 ELSE IF regret > 8 THEN 2 ELSE 0)
    ELSE IF i = WHALE THEN (IF draws.whale THEN 1 ELSE 0)
    ELSE IF i = HFT THEN draws.hft
    ELSE IF i = ETF THEN 1
    ELSE IF i = ARB THEN draws.arb
    ELSE 0

\* variant: the panic sell is not floored
InventoryAfterUnfloored(i, regret, inventory, draws) ==
    IF i = RETAIL
    THEN IF regret < 3 THEN inventory + 1
         ELSE IF regret > 8 THEN inventory - 2
         ELSE inventory
    ELSE IF i = WHALE THEN (IF draws.whale THEN inventory + 100 ELSE inventory)
    ELSE IF i = ETF THEN inventory + 10
    ELSE inventory

\* _simulate_actors: actor_inventory[i], in hundredths of a BTC
InventoryAfter(i, regret, inventory, draws) ==
    IF i = RETAIL
    THEN IF regret < 3 THEN inventory + 1
         ELSE IF regret > 8
         THEN (IF inventory - 2 > 0 THEN inventory - 2 ELSE 0)
         ELSE inventory
    ELSE IF i = WHALE THEN (IF draws.whale THEN inventory + 100 ELSE inventory)
    ELSE IF i = ETF THEN inventory + 10
    ELSE inventory

\* max(self.max_capital, current_value)
MaxCapitalAfter(max_cap, value) == IF value > max_cap THEN value ELSE max_cap

\* row['close'] of the row that _get_obs reads, in units of 11200 dollars.
\* The rows are drawn as they are read: the data frame is a random walk, or
\* the caller's.
Closes == {9, 10}

\* drawdown = (max_capital - current_value) / max_capital * 100 exceeds pct
DrawdownAbove(max_cap, value, pct) == (max_cap - value) * 100 > pct * max_cap
DrawdownBelow(max_cap, value, pct) == (max_cap - value) * 100 < pct * max_cap
\* the drawdown in percent, rounded down
Drawdown(max_cap, value) == ((max_cap - value) * 100) \div max_cap

\* _update_ppi_silos, in tenths; self.volatility is 0.03 throughout
UpdatePpiSilos(pnl, max_cap, value, draws) ==
    <<IF DrawdownBelow(max_cap, value, 10) THEN 80 ELSE 30,
      draws.belonging,
      IF pnl > 0 THEN 70 ELSE 40,
      80, 70, 65, 60>>

Abs10(x) == IF x < 0 THEN -x ELSE x
\* np.sum(np.abs(np.diff(self.ppi_silos[-3:]))), in tenths
SiloChange(silos) ==
    Abs10(silos[NumSilos - 1] - silos[NumSilos - 2])
    + Abs10(silos[NumSilos] - silos[NumSilos - 1])

DRAWDOWN_LIMIT == 5
SILO_CHANGE_LIMIT == 150

\* variant: a drawdown of 10 percent is needed
TruncatedLate(max_cap, value, silos) ==
    DrawdownAbove(max_cap, value, 10) \/ SiloChange(silos) > SILO_CHANGE_LIMIT

\* truncated = drawdown > 5.0 or np.sum(...) > 15
Truncated(max_cap, value, silos) ==
    DrawdownAbove(max_cap, value, DRAWDOWN_LIMIT)
    \/ SiloChange(silos) > SILO_CHANGE_LIMIT

\* reset; close is the close of row 0, which the final _get_obs reads
EnvReset(regrets, silos, close) ==
    /\ env_class = "SentientTraderFinRLEnv"
    /\ actor_regrets' = regrets
    /\ capital' = CAPITAL_ONE
    /\ trades' = <<>>
    /\ env_current_step' = 0
    /\ nash_equilibrium_count' = 0
    /\ actor_inventory' = InitialInventory
    /\ actor_last_action' = NoLastActions
    /\ ppi_silos' = silos
    /\ price' = close
    /\ max_capital' = MAX_CAPITAL_ONE
    /\ pnl_history' = <<>>
    /\ drawdown_history' = <<>>
    /\ info' = NoInfo
    /\ UNCHANGED <<env_class, vars, fn_vars, report_vars>>

\* step, on a data frame whose last row has index max_steps.  The final
\* self._get_obs() reads row current_step and raises IndexError past the
\* last row, after the state was written.
StepEffects(action, replies, draws, close, max_steps) ==
    LET regrets == UpdateActorRegrets(actor_regrets, replies)
        regret_blocked == RegretBlocked(regrets)
        final == IF regret_blocked THEN 0 ELSE action
        nash_stable == CheckNashEquilibrium(regrets)
        cap == CapitalAfter(final, capital)
        current_value == cap * price
        \* pnl_pct, in millionths of the initial capital
        pnl == cap - CAPITAL_ONE
        max_cap == MaxCapitalAfter(max_capital, current_value)
        silos == UpdatePpiSilos(pnl, max_cap, current_value, draws)
    IN /\ env_class = "SentientTraderFinRLEnv"
       /\ actor_regrets' = regrets
       /\ capital' = cap
       /\ trades' = TradesAfter(final, capital, env_current_step, trades)
       /\ actor_last_action' =
             [i \in Actors |-> LastActionAfter(i, regrets[i], draws)]
       /\ actor_inventory' =
             [i \in Actors |->
                 InventoryAfter(i, regrets[i], actor_inventory[i], draws)]
       /\ env_current_step' = env_current_step + 1
       /\ pnl_history' = Append(pnl_history, pnl)
       /\ max_capital' = max_cap
       /\ drawdown_history' =
             Append(drawdown_history, Drawdown(max_cap, current_value))
       /\ ppi_silos' = silos
       /\ price' = IF env_current_step + 1 > max_steps THEN price ELSE close
       /\ nash_equilibrium_count' =
             IF nash_stable THEN nash_equilibrium_count + 1
             ELSE nash_equilibrium_count
       /\ info' = [action |-> ActionName(final),
                   regret_blocked |-> regret_blocked,
                   nash_stable |-> nash_stable,
                   price |-> price,
                   terminated |-> env_current_step + 1 >= max_steps,
                   truncated |-> Truncated(max_cap, current_value, silos),
                   raised |-> env_current_step + 1 > max_steps]
       /\ UNCHANGED <<env_class, vars, fn_vars, report_vars>>

\* step, on the mock data
EnvStep(action, replies, draws, close) ==
    /\ env_current_step < MaxEnvSteps
    /\ StepEffects(action, replies, draws, close, MOCK_BARS - 1)

EnvNext ==
    \/ \E regrets \in ResetVectors :
          EnvReset(regrets, [k \in 1..NumSilos |-> 30], PRICE_CONSTRUCTED)
    \/ \E action \in EnvActions, replies \in ReplyVectors :
          EnvStep(action, replies, CalmDraw, PRICE_CONSTRUCTED)

EnvSpec == EnvInit /\ [][EnvNext]_env_vars

\* ============================================================= RegretSpec
\* One pass of the loop of _update_actor_regrets, applied to a regret and
\* a reply of the oracle.
RegretInit ==
    /\ SessionInit /\ supabase
    /\ EnvConstructed
    /\ fn_in \in [fn : {"regret"}, regret : REGRET_MIN..REGRET_MAX,
                 reply : RegretReplies]
    /\ fn_out = NoCall
    /\ ReportIdle

ApplyUpdateRegret ==
    /\ fn_in.fn = "regret"
    /\ fn_out = NoCall
    /\ fn_out' = [fn |-> "regret",
                  regret |-> UpdateRegret(fn_in.regret, fn_in.reply)]
    /\ UNCHANGED <<fn_in, vars, env_vars, report_vars>>

RegretNext == ApplyUpdateRegret

RegretSpec == RegretInit /\ [][RegretNext]_fn_vars

\* =============================================================== TierSpec
\* get_ppi_tier (src/main.py), applied to a score in tenths of a point.
\* PPI_TIER_MAP in the order the dict is iterated
PPI_TIER_MAP ==
    <<[low |-> 0, high |-> 200, tier |-> "Survival (Physiological)"],
      [low |-> 200, high |-> 400, tier |-> "Safety"],
      [low |-> 400, high |-> 600, tier |-> "Belonging"],
      [low |-> 600, high |-> 800, tier |-> "Esteem"],
      [low |-> 800, high |-> 1000, tier |-> "Self-Actualization"]>>

\* variant: the bins are closed at both ends
TierBinContainsClosed(bin, score) == bin.low <= score /\ score <= bin.high

\* if low <= ppi_score < high
TierBinContains(bin, score) == bin.low <= score /\ score < bin.high

\* the loop of get_ppi_tier from entry i on: the first bin that contains
\* the score, and "Self-Actualization" when the loop ends without one
RECURSIVE TierFrom(_, _)
TierFrom(i, score) ==
    IF i > Len(PPI_TIER_MAP) THEN "Self-Actualization"
    ELSE IF TierBinContains(PPI_TIER_MAP[i], score) THEN PPI_TIER_MAP[i].tier
    ELSE TierFrom(i + 1, score)

get_ppi_tier(ppi_score) == TierFrom(1, ppi_score)

TierInit ==
    /\ SessionInit /\ supabase
    /\ EnvConstructed
    /\ fn_in \in [fn : {"get_ppi_tier"}, ppi_score : PPI_MIN..PPI_MAX]
    /\ fn_out = NoCall
    /\ ReportIdle

ApplyGetPpiTier ==
    /\ fn_in.fn = "get_ppi_tier"
    /\ fn_out = NoCall
    /\ fn_out' = [fn |-> "get_ppi_tier", tier |-> get_ppi_tier(fn_in.ppi_score)]
    /\ UNCHANGED <<fn_in, vars, env_vars, report_vars>>

TierNext == ApplyGetPpiTier

TierSpec == TierInit /\ [][TierNext]_fn_vars

\* ================================================================ PpiSpec
\* The three computations of a trust composite: _calculate_ppi of
\* src/env.py (tiered), calculate_hybrid_ppi of
\* src/train_sentient_trader.py (weighted silos) and the per-step score of
\* take_step.  Composites and sub-scores are in hundredths of a point,
\* pnl_pct and drawdown in percent, volatility in thousandths, the sharpe
\* ratio in hundredths, etf_inflows in units of 10^7.
COMPOSITE_MIN == 0
COMPOSITE_MAX == 10000

\* np.clip(total_ppi, 0, 100)
ClipComposite(x) ==
    IF x < COMPOSITE_MIN THEN COMPOSITE_MIN
    ELSE IF x > COMPOSITE_MAX THEN COMPOSITE_MAX ELSE x

\* variant: a drawdown of exactly 10 still counts as safe
SafetyScoreClosed(volatility, drawdown) ==
    (((IF volatility < 50 THEN 50 ELSE 0) + (IF drawdown <= 10 THEN 50 ELSE 0))
        * 4000) \div 100

\* safety_score: 50 for volatility < 0.05 plus 50 for drawdown < 10, as a
\* share of 40 points
SafetyScore(volatility, drawdown) ==
    (((IF volatility < 50 THEN 50 ELSE 0) + (IF drawdown < 10 THEN 50 ELSE 0))
        * 4000) \div 100

\* esteem_score = min(pnl_pct / 10, 1.0) * 20 if pnl_pct > 0, else 0
EsteemScore(pnl_pct) ==
    IF pnl_pct > 0 THEN (IF pnl_pct > 10 THEN 2000 ELSE pnl_pct * 200) ELSE 0

\* _calculate_ppi: community and solar are the two uniform draws, as
\* shares (in hundredths) of 20 points each
CalculatePpi(volatility, pnl_pct, drawdown, community, solar) ==
    ClipComposite(SafetyScore(volatility, drawdown) + community * 20
                  + EsteemScore(pnl_pct) + solar * 20)

\* the five silo scores of calculate_hybrid_ppi
HybridSilos(d) ==
    [Sentiment |-> d.fear_greed * 10,
     Flow |-> IF d.etf_inflows < 1000 THEN d.etf_inflows ELSE 1000,
     Tech |-> IF d.solar_regen THEN 700 ELSE 300,
     Macro |-> IF d.whale_accum > 20000 THEN 800 ELSE 400,
     Esteem |-> 600 + d.sharpe * 2]

\* composite = sum(score * weight) * 10 with the weights 0.4, 0.2, 0.15,
\* 0.15 and 0.1; the scores are multiples of 0.01, which round(x, 2) keeps
CalculateHybridPpi(d) ==
    LET silos == HybridSilos(d)
    IN (40 * silos.Sentiment + 20 * silos.Flow + 15 * silos.Tech
        + 15 * silos.Macro + 10 * silos.Esteem) \div 10

TieredInputs ==
    [fn : {"_calculate_ppi"},
     volatility : {30, 49, 50, 70},
     pnl_pct : {-1000000, -5, 0, 3, 10, 1000000},
     drawdown : {-50, 0, 10, 100, 1000000},
     community : {60, 100},
     solar : {70, 100}]

HybridInputs ==
    [fn : {"calculate_hybrid_ppi"},
     fear_greed : {0, 50, 100},
     etf_inflows : {0, 2690},
     solar_regen : BOOLEAN,
     whale_accum : {0, 26430},
     sharpe : {-100000, -3000, 0, 150, 2000, 100000}]

StepScoreInputs ==
    [fn : {"step_ppi"}, current_ppi : {0, 5, 750, 998, 1000},
     ppi_delta : {-10, -2, 0, 8, 40}]

PpiInit ==
    /\ SessionInit /\ supabase
    /\ EnvConstructed
    /\ fn_in \in TieredInputs \cup HybridInputs \cup StepScoreInputs
    /\ fn_out = NoCall
    /\ ReportIdle

ApplyCalculatePpi ==
    /\ fn_in.fn = "_calculate_ppi"
    /\ fn_out = NoCall
    /\ fn_out' = [fn |-> fn_in.fn,
                  safety |-> SafetyScore(fn_in.volatility, fn_in.drawdown),
                  composite |-> CalculatePpi(fn_in.volatility, fn_in.pnl_pct,
                                    fn_in.drawdown, fn_in.community, fn_in.solar)]
    /\ UNCHANGED <<fn_in, vars, env_vars, report_vars>>

ApplyCalculateHybridPpi ==
    /\ fn_in.fn = "calculate_hybrid_ppi"
    /\ fn_out = NoCall
    /\ fn_out' = [fn |-> fn_in.fn, composite |-> CalculateHybridPpi(fn_in)]
    /\ UNCHANGED <<fn_in, vars, env_vars, report_vars>>

\* line 386 of take_step (tenths of a point, given here in hundredths)
ApplyStepPpi ==
    /\ fn_in.fn = "step_ppi"
    /\ fn_out = NoCall
    /\ fn_out' = [fn |-> fn_in.fn,
                  composite |-> 10 * NewPpi(fn_in.current_ppi, fn_in.ppi_delta)]
    /\ UNCHANGED <<fn_in, vars, env_vars, report_vars>>

PpiNext ==
    \/ ApplyCalculatePpi
    \/ ApplyCalculateHybridPpi
    \/ ApplyStepPpi

PpiSpec == PpiInit /\ [][PpiNext]_fn_vars

\* ============================================================= FusionSpec
\* The three places that fuse the policy's vote with the oracle's: step of
\* src/env.py and step of src/train_sentient_trader.py (stochastic vote)
\* and take_step of src/main.py (deterministic blend).  regrets is the
\* vector of actor regrets at the step; none of the three reads it.
FusionRegrets ==
    {r \in [Actors -> {2, 8}] : Cardinality({a \in Actors : r[a] = 8}) <= 1}

\* final_action = grok_vote if np.random.rand() < 0.5 else action
StochasticVote(action, grok_vote, use_grok) ==
    IF use_grok THEN grok_vote ELSE action

FusionInputs ==
    [fn : {"env.step", "train.step", "take_step"},
     regrets : FusionRegrets,
     rl : ActionTypes,
     grok : ActionTypes]

FusionInit ==
    /\ SessionInit /\ supabase
    /\ EnvConstructed
    /\ fn_in \in FusionInputs
    /\ fn_out = NoCall
    /\ ReportIdle

\* lines 127-133 of step in src/env.py
EnvFusion(use_grok) ==
    /\ fn_in.fn = "env.step"
    /\ fn_out = NoCall
    /\ fn_out' = [fn |-> "fusion",
                  final_action |-> StochasticVote(fn_in.rl, fn_in.grok, use_grok)]
    /\ UNCHANGED <<fn_in, vars, env_vars, report_vars>>

\* lines 208-213 of step in src/train_sentient_trader.py
TrainFusion(use_grok) ==
    /\ fn_in.fn = "train.step"
    /\ fn_out = NoCall
    /\ fn_out' = [fn |-> "fusion",
                  final_action |-> StochasticVote(fn_in.rl, fn_in.grok, use_grok)]
    /\ UNCHANGED <<fn_in, vars, env_vars, report_vars>>

\* lines 354-369 of take_step: the type of blend_actions' result
SessionFusion ==
    /\ fn_in.fn = "take_step"
    /\ fn_out = NoCall
    /\ fn_out' = [fn |-> "fusion",
                  final_action |-> BlendType(fn_in.rl, fn_in.grok)]
    /\ UNCHANGED <<fn_in, vars, env_vars, report_vars>>

FusionNext ==
    \/ \E use_grok \in BOOLEAN : EnvFusion(use_grok)
    \/ \E use_grok \in BOOLEAN : TrainFusion(use_grok)
    \/ SessionFusion

FusionSpec == FusionInit /\ [][FusionNext]_fn_vars

\* ================================================================ ObsSpec
\* _get_obs of src/env_finrl.py, applied to the state it reads.  Entries of
\* the observation are in ten-thousandths; the cast to float32 is left out.
\* Silos and regrets are in tenths, inventories in hundredths of a BTC,
\* last actions are 0, 1 or 2, dxy and vix are in tenths, the price in
\* dollars; volume_term stands for np.log1p(self.volume) / 20.
OBS_DIM == 42

\* variant: the zeros are put in front
PadLeft(obs, n) ==
    IF Len(obs) < n THEN [i \in 1..(n - Len(obs)) |-> 0] \o obs ELSE obs

\* np.pad(obs, (0, n - len(obs)), mode='constant') if len(obs) < n
PadRight(obs, n) ==
    IF Len(obs) < n THEN obs \o [i \in 1..(n - Len(obs)) |-> 0] ELSE obs

\* obs[:n]
Truncate(obs, n) == SubSeq(obs, 1, IF Len(obs) < n THEN Len(obs) ELSE n)

\* the five market indicators of the observation
Indicators(st) ==
    <<st.dxy * 10, st.vix * 10, st.fear_greed * 100, st.price \div 10,
      st.volume_term>>

GetObs(st) ==
    LET obs == [i \in 1..Len(st.ppi_silos) |-> st.ppi_silos[i] * 1000]
               \o [i \in Actors |-> st.actor_regrets[i] * 1000]
               \o [i \in Actors |-> st.actor_inventory[i]]
               \o [i \in Actors |-> st.actor_last_action[i] * 10000]
               \o Indicators(st)
    IN Truncate(PadRight(obs, OBS_DIM), OBS_DIM)

\* ppi_silos as __init__, reset and _update_ppi_silos leave them
ObsSilos ==
    {<<0, 0, 0, 0, 0, 0, 0>>, <<30, 70, 30, 70, 30, 70, 30>>,
     <<80, 50, 70, 80, 70, 65, 60>>, <<30, 80, 40, 80, 70, 65, 60>>}

\* actor_regrets: as constructed, after reset, after forecasts
ObsRegrets ==
    {[i \in Actors |-> 0], [i \in Actors |-> IF i = 1 THEN 2 ELSE 5],
     [i \in Actors |-> IF i = 4 THEN 12 ELSE -3]}

\* actor_inventory: as constructed, and after a step of _simulate_actors
ObsInventories ==
    {<<10, 2600, 50, 10000, 100, 100>>, <<11, 2700, 50, 10010, 100, 100>>,
     <<0, 2600, 50, 10010, 100, 100>>}

ObsLastActions == {<<0, 0, 0, 0, 0, 0>>, <<1, 1, 2, 1, 2, 0>>}

ObsInputs ==
    [fn : {"_get_obs"},
     ppi_silos : ObsSilos,
     actor_regrets : ObsRegrets,
     actor_inventory : ObsInventories,
     actor_last_action : ObsLastActions,
     dxy : {1045}, vix : {150},
     fear_greed : {0, 50, 100},
     price : {98000, 112000},
     volume_term : {10017, 10710}]

ObsInit ==
    /\ SessionInit /\ supabase
    /\ EnvConstructed
    /\ fn_in \in ObsInputs
    /\ fn_out = NoCall
    /\ ReportIdle

ApplyGetObs ==
    /\ fn_in.fn = "_get_obs"
    /\ fn_out = NoCall
    /\ fn_out' = [fn |-> "_get_obs", obs |-> GetObs(fn_in)]
    /\ UNCHANGED <<fn_in, vars, env_vars, report_vars>>

ObsNext == ApplyGetObs

ObsSpec == ObsInit /\ [][ObsNext]_fn_vars

\* ============================================================= ReportSpec
\* generate_report of src/report.py and get_agent_stats of src/main.py, on
\* a store that holds up to two episodes.  Both handlers wrap their body in
\* try / except Exception and answer whatever is raised inside it with 500.
MaxReports == 2

TwoEpisodes ==
    <<[agent_id |-> "Agent-Alpha", episode_number |-> 1, final |-> TRUE,
       ppi_score |-> 20],
      [agent_id |-> "Agent-Alpha", episode_number |-> 2, final |-> FALSE,
       ppi_score |-> 0]>>
ReportEpisodeIds == 1..3
ReportAgentIds == AgentNames \cup {"Agent-Unknown"}

\* store faults of one report request: 0 none, 1 the episode select fails,
\* 2 the actions select fails, 3 the scores select fails, 4 the insert of
\* the report fails
ReportFaults == 0..4

\* a store written by earlier sessions: no, one or two episodes, and up to
\* two action rows of the first one; no session is live
ReportInit ==
    /\ supabase \in BOOLEAN
    /\ store_agents = [n \in AgentNames |->
                          [episodes_trained |-> 2, updates |-> 1,
                           ppi_score |-> Rat(10, 1)]]
    /\ \E n \in 0..2 : store_episodes = SubSeq(TwoEpisodes, 1, n)
    /\ store_actions \in SUBSET {[episode_id |-> 1, step |-> 1],
                                 [episode_id |-> 1, step |-> 2]}
    /\ active_episodes = {}
    /\ episode_data = [e \in EpisodeIds |-> NoEpisode]
    /\ conn_keys = {}
    /\ conn_list = [e \in EpisodeIds |-> <<>>]
    /\ start_calls = 0
    /\ last_start = [fault |-> 0, status |-> "none", episode_id |-> 0]
    /\ step_calls = [t \in StepCalls |-> IdleStep]
    /\ end_calls = [c \in EndCalls |-> IdleEnd]
    /\ subs = [w \in WS |-> NewSub]
    /\ EnvConstructed
    /\ FnIdle
    /\ ReportIdle

\* len(actions) for the episode
ReportSteps(episode_id) ==
    Cardinality({a \in store_actions : a.episode_id = episode_id})

\* the status a handler answers with when its try block raises an
\* HTTPException of the given status: except Exception catches it
CaughtStatus(raised) == 500

\* generate_report.  single_raises: whether .single().execute() raises for
\* a select that matches no row or returns an empty result; both happen
\* inside the try.
GenerateReport(episode_id, fault, single_raises) ==
    /\ Len(store_reports) < MaxReports
    /\ LET known == episode_id \in 1..Len(store_episodes)
           answer(status) == [op |-> "report", id |-> episode_id,
                              status |-> status,
                              store_failed |-> supabase /\ fault # 0]
       IN IF ~supabase
          THEN /\ report_reply' = answer(500)
               /\ UNCHANGED store_reports
          ELSE IF fault = 1 \/ (~known /\ single_raises)
          THEN /\ report_reply' = answer(500)
               /\ UNCHANGED store_reports
          ELSE IF ~known
          THEN /\ report_reply' = answer(CaughtStatus(404))
               /\ UNCHANGED store_reports
          ELSE IF fault # 0
          THEN /\ report_reply' = answer(500)
               /\ UNCHANGED store_reports
          ELSE /\ store_reports' = Append(store_reports,
                      [episode_id |-> episode_id,
                       steps |-> ReportSteps(episode_id)])
               /\ report_reply' = answer(200)
    /\ UNCHANGED <<vars, env_vars, fn_vars>>

\* get_agent_stats.  fault: a select of the store raises
GetAgentStats(agent_id, fault) ==
    /\ LET answer(status) == [op |-> "stats", id |-> agent_id,
                              status |-> status,
                              store_failed |-> supabase /\ fault]
       IN IF ~supabase \/ fault
          THEN report_reply' = answer(500)
          ELSE IF agent_id \notin DOMAIN store_agents
          THEN report_reply' = answer(CaughtStatus(404))
          ELSE report_reply' = answer(200)
    /\ UNCHANGED <<vars, env_vars, fn_vars, store_reports>>

ReportNext ==
    \/ \E episode_id \in ReportEpisodeIds, fault \in ReportFaults,
          single_raises \in BOOLEAN :
          GenerateReport(episode_id, fault, single_raises)
    \/ \E agent_id \in ReportAgentIds, fault \in BOOLEAN :
          GetAgentStats(agent_id, fault)

ReportSpec == ReportInit /\ [][ReportNext]_<<vars, report_vars>>

\* ============================================================ EpisodeSpec
\* Whole episodes of one environment object: a SentientTraderFinRLEnv built
\* on a data frame of EpisodeBars rows, or a TradingEnv (src/env.py).  The
\* forecasts are coarser than in EnvSpec, and step is also called after the
\* step limit was reached.
EpisodeBars == 3
MaxEpisodeSteps == 3

\* self.max_steps = 1000 of TradingEnv
TE_MAX_STEPS == 1000
\* size = 0.1
TE_SIZE == 100000

\* TradingEnv.__init__.  The price walk of this class and what follows
\* the price (max_capital, the two histories, the trust score, the reward)
\* are not modelled: the actor fields stay as they are.
TradingEnvConstructed ==
    /\ env_class = "TradingEnv"
    /\ ActorFieldsConstructed
    /\ capital = CAPITAL_ONE
    /\ trades = <<>>
    /\ env_current_step = 0
    /\ info = NoInfo

\* regrets drawn by reset
EpisodeResets == {[i \in Actors |-> 2], [i \in Actors |-> 5]}

\* regret forecasts of one step, for the six actors
EpisodeForecasts ==
    {<<1, 1, 1, 9, 9, 9>>, <<1, 1, 4, 9, 9, 9>>,
     <<2, 2, 3, 5, 5, 5>>, <<2, 2, 2, 5, 5, 5>>}

\* the replies to the six calls of one step: six forecasts, or six
\* responses with a status other than 200
EpisodeReplies ==
    {[i \in Actors |-> [kind |-> "ok", regret |-> f[i], noise |-> 0]] :
        f \in EpisodeForecasts}
    \cup {[i \in Actors |-> [kind |-> "status", regret |-> RegretMissing,
                              noise |-> 0]]}

\* hold, long 0.5%, short 1.0%, trac
EpisodeActions == {0, 2, 6, 8}

EpisodeInit ==
    /\ SessionInit /\ supabase
    /\ EnvConstructed \/ TradingEnvConstructed
    /\ FnIdle
    /\ ReportIdle

\* step of SentientTraderFinRLEnv on the short data frame
EpisodeStep(action, replies, draws, close) ==
    /\ env_current_step < MaxEpisodeSteps
    /\ StepEffects(action, replies, draws, close, EpisodeBars - 1)

\* variant: an action that is not in the table counts as a buy
GrokVoteLong(name) == IF name = "sell" THEN 2 ELSE IF name = "hold" THEN 0 ELSE 1

\* grok_vote = {"buy": 1, "sell": 2, "hold": 0}.get(action, 0)
GrokVote(name) == IF name = "buy" THEN 1 ELSE IF name = "sell" THEN 2 ELSE 0

\* ["hold", "buy", "sell"][final_action]
TeActionName(final_action) == <<"hold", "buy", "sell">>[final_action + 1]

\* self.trades after the trade of TradingEnv.step
TeTradesAfter(final_action, step, log) ==
    IF final_action \in {1, 2}
    THEN Append(log, [step |-> step, action |-> TeActionName(final_action),
                      size |-> TE_SIZE])
    ELSE log

\* TradingEnv.reset
TeReset ==
    /\ env_class = "TradingEnv"
    /\ capital' = CAPITAL_ONE
    /\ trades' = <<>>
    /\ env_current_step' = 0
    /\ info' = NoInfo
    /\ UNCHANGED <<env_class, actor_fields, vars, fn_vars, report_vars>>

\* TradingEnv.step: grok is the action named by the oracle (or by the
\* random fallback), use_grok the outcome of np.random.rand() < 0.5
TeStep(action, grok, use_grok) ==
    LET final_action == StochasticVote(action, GrokVote(grok), use_grok)
    IN /\ env_class = "TradingEnv"
       /\ env_current_step < MaxEpisodeSteps
       /\ capital' = IF final_action = 1 THEN capital - TE_SIZE
                     ELSE IF final_action = 2 THEN capital + TE_SIZE
                     ELSE capital
       /\ trades' = TeTradesAfter(final_action, env_current_step, trades)
       /\ env_current_step' = env_current_step + 1
       /\ info' = [action |-> TeActionName(final_action),
                   regret_blocked |-> FALSE, nash_stable |-> FALSE,
                   price |-> 0,
                   terminated |-> env_current_step + 1 >= TE_MAX_STEPS,
                   truncated |-> FALSE, raised |-> FALSE]
       /\ UNCHANGED <<env_class, actor_fields, vars, fn_vars, report_vars>>

EpisodeNext ==
    \/ \E regrets \in EpisodeResets, silos \in ResetSilos :
          EnvReset(regrets, silos, PRICE_CONSTRUCTED)
    \/ \E action \in EpisodeActions, replies \in EpisodeReplies,
          draws \in Draws, close \in Closes :
          EpisodeStep(action, replies, draws, close)
    \/ TeReset
    \/ \E action \in 0..2, grok \in {"buy", "sell", "hold", "long"},
          use_grok \in BOOLEAN : TeStep(action, grok, use_grok)

EpisodeSpec == EpisodeInit /\ [][EpisodeNext]_env_vars

\* ============================================================== ActorSpec
\* Longer episodes of SentientTraderFinRLEnv on the mock data: the agent
\* holds, the forecast for Retail is low (it buys) or high (it panic
\* sells), the other forecasts are 0.5.
MaxActorSteps == 6

ActorReplies ==
    {[i \in Actors |-> [kind |-> "ok", regret |-> IF i = RETAIL THEN r ELSE 5,
                        noise |-> 0]] : r \in {2, 9}}

ActorStep(replies, draws) ==
    /\ env_current_step < MaxActorSteps
    /\ StepEffects(0, replies, draws, PRICE_CONSTRUCTED, MOCK_BARS - 1)

ActorNext ==
    \/ \E regrets \in EpisodeResets, silos \in ResetSilos :
          EnvReset(regrets, silos, PRICE_CONSTRUCTED)
    \/ \E replies \in ActorReplies, draws \in Draws : ActorStep(replies, draws)

ActorSpec == EnvInit /\ [][ActorNext]_env_vars

\* =============================================================== VoteSpec
\* The stochastic vote and the trade that follows it, in step of
\* src/env.py and in step of src/train_sentient_trader.py.  grok is the
\* "action" entry of the oracle's answer: "long" stands for a value that
\* is not in the table, "missing" for an answer without the entry, which
\* both readers replace by "hold".
VoteInputs ==
    [fn : {"env.step", "train.step"},
     action : 0..2,
     grok : {"buy", "sell", "hold", "long", "missing"},
     capital : {0, 50000, CAPITAL_ONE}]

VoteInit ==
    /\ SessionInit /\ supabase
    /\ EnvConstructed
    /\ fn_in \in VoteInputs
    /\ fn_out = NoCall
    /\ ReportIdle

\* grok_action.get("action", "hold"), data.get("action", "hold")
GrokActionOf(grok) == IF grok = "missing" THEN "hold" ELSE grok

\* lines 127-158 of step in src/env.py: the trade is made whatever the
\* capital is
EnvVote(use_grok) ==
    /\ fn_in.fn = "env.step"
    /\ fn_out = NoCall
    /\ LET final_action ==
               StochasticVote(fn_in.action, GrokVote(GrokActionOf(fn_in.grok)),
                              use_grok)
       IN fn_out' = [fn |-> "vote", final_action |-> final_action,
                     trade |-> TeActionName(final_action)]
    /\ UNCHANGED <<fn_in, vars, env_vars, report_vars>>

\* lines 205-222 of step in src/train_sentient_trader.py: a buy needs
\* capital >= size, a sell needs 1.0 - capital >= size (size 0.1)
TrainVote(use_grok) ==
    /\ fn_in.fn = "train.step"
    /\ fn_out = NoCall
    /\ LET final_action ==
               StochasticVote(fn_in.action, GrokVote(GrokActionOf(fn_in.grok)),
                              use_grok)
           btc_holdings == CAPITAL_ONE - fn_in.capital
       IN fn_out' = [fn |-> "vote", final_action |-> final_action,
                     trade |-> IF final_action = 1 /\ fn_in.capital >= TE_SIZE
                               THEN "buy"
                               ELSE IF final_action = 2 /\ btc_holdings >= TE_SIZE
                               THEN "sell"
                               ELSE "hold"]
    /\ UNCHANGED <<fn_in, vars, env_vars, report_vars>>

VoteNext ==
    \/ \E use_grok \in BOOLEAN : EnvVote(use_grok)
    \/ \E use_grok \in BOOLEAN : TrainVote(use_grok)

VoteSpec == VoteInit /\ [][VoteNext]_fn_vars

\* ============================================================== ColabSpec
\* get_vo_state of src/train_colab.py, as reset and step of SentientEnv
\* return it.  Numbers are in tenths.
\* shape=(42,) of the observation space
COLAB_OBS_DIM == 42
COLAB_ACTORS == 6
MaxActorRows == 7

\* the silo row used when the store has none
DefaultSilos == <<70, 60, 70, 80, 65, 75, 80>>
\* the row appended while there are fewer than 6 actors
DefaultActor == [regret_score |-> 5, inventory_btc |-> 10, last_action |-> 0]
StoredActor == [regret_score |-> 3, inventory_btc |-> 260, last_action |-> 10]

\* store: "fails" if a select raises, else what the two selects return;
\* price: 0 if the price request fails
ColabInputs ==
    [fn : {"reset", "step"},
     store : {"fails", "answers"},
     silos : {<<>>, <<<<80, 50, 40, 80, 70, 65, 60>>>>},
     actors : {[i \in 1..n |-> StoredActor] : n \in 0..MaxActorRows},
     price : {0, 1120000},
     noise : {0, 9}]

ColabInit ==
    /\ SessionInit /\ supabase
    /\ EnvConstructed
    /\ fn_in \in ColabInputs
    /\ fn_out = NoCall
    /\ ReportIdle

\* while len(actors) < 6: actors.append({...})
RECURSIVE PadActors(_)
PadActors(actors) ==
    IF Len(actors) < COLAB_ACTORS THEN PadActors(Append(actors, DefaultActor))
    ELSE actors

\* actors[:6]
FirstActors(actors) ==
    SubSeq(actors, 1, IF Len(actors) < COLAB_ACTORS THEN Len(actors)
                      ELSE COLAB_ACTORS)

\* get_vo_state: the array built in the try block, or np.random.rand(42)
\* if the block raises
GetVoState(in) ==
    IF in.store = "fails" THEN [k \in 1..COLAB_OBS_DIM |-> in.noise]
    ELSE LET silos == IF in.silos # <<>> THEN in.silos[1] ELSE DefaultSilos
             actors == FirstActors(PadActors(in.actors))
             usd == IF in.price = 0 THEN 1143350 ELSE in.price
         IN silos
            \o [i \in 1..Len(actors) |-> actors[i].regret_score]
            \o [i \in 1..Len(actors) |-> actors[i].inventory_btc]
            \o [i \in 1..Len(actors) |-> actors[i].last_action]
            \o <<usd \div 100000, 0, 150, 500, 10>>

\* SentientEnv.reset
ColabReset ==
    /\ fn_in.fn = "reset"
    /\ fn_out = NoCall
    /\ fn_out' = [fn |-> "get_vo_state", state |-> GetVoState(fn_in)]
    /\ UNCHANGED <<fn_in, vars, env_vars, report_vars>>

\* SentientEnv.step: the state it returns
ColabStep ==
    /\ fn_in.fn = "step"
    /\ fn_out = NoCall
    /\ fn_out' = [fn |-> "get_vo_state", state |-> GetVoState(fn_in)]
    /\ UNCHANGED <<fn_in, vars, env_vars, report_vars>>

ColabNext == ColabReset \/ ColabStep

ColabSpec == ColabInit /\ [][ColabNext]_fn_vars

\* ------------------------------------------------------------------ claims
StepEventsOf(ws) ==
    {i \in 1..Len(subs[ws].inbox) : subs[ws].inbox[i].type = "step"}
Registered(ws, e) == e \in conn_keys /\ ws \in Range(conn_list[e])

\* C1: concurrent steps on one episode leave it as a sequential run of
\* them would: every step adds one to the step counter left by the steps
\* applied before it and computes the trust score from the score they left,
\* so that no update made while it waited for the oracle is overwritten.
C1_StepsSerializable ==
    [][\A t \in StepCalls :
         (step_calls[t].pc = "grok" /\ step_calls'[t].pc # "grok") =>
            LET e == step_calls[t].ep
            IN /\ episode_data'[e].current_step = episode_data[e].current_step + 1
               /\ step_calls'[t].step = episode_data'[e].current_step
               /\ step_calls[t].current_ppi = GetPpi(episode_data[e])]_vars

\* C2: every subscriber receives the step events in increasing step index.
C2_StepEventsInOrder ==
    \A ws \in WS : \A i, j \in StepEventsOf(ws) :
        i < j => subs[ws].inbox[i].step < subs[ws].inbox[j].step

\* C3: once end(e) has returned successfully, e is not live and stays so,
\* and every step(e) issued afterwards is answered NotFound without a step
\* index.
C3_EndIsTerminal ==
    [][/\ Ended' \cap active_episodes' = {}
       /\ \A t \in StepCalls :
            (/\ step_calls[t].pc = "idle"
             /\ step_calls'[t].pc # "idle"
             /\ step_calls'[t].ep \in Ended)
            => (step_calls'[t].pc = "notfound" /\ step_calls'[t].step = 0)]_vars

C3_Witness ==
    \E t \in StepCalls : step_calls[t].pc = "notfound" /\ step_calls[t].after_end

\* C4: a step on an episode id that is not live is answered NotFound and
\* changes no episode's counter or trust score, writes no action row and
\* sends nothing to any subscriber.
C4_StepNotLiveChangesNothing ==
    [][\A t \in StepCalls :
         (/\ step_calls[t].pc = "idle"
          /\ step_calls'[t].pc # "idle"
          /\ step_calls'[t].ep \notin active_episodes)
         => (/\ step_calls'[t].pc = "notfound"
             /\ UNCHANGED <<episode_data, store_actions, subs,
                            active_episodes, conn_keys, conn_list>>)]_vars

C4_Witness ==
    /\ \E t \in StepCalls : step_calls[t].pc = "notfound"
    /\ store_actions # {}
    /\ \E ws \in WS : subs[ws].state = "listening"

\* C5: when end(e) has returned successfully, every subscriber that was
\* registered for e is closed, e has no subscriber list and e is not live.
C5_EndClosesAllSubscribers ==
    \A c \in EndCalls :
        end_calls[c].pc = "done" =>
            /\ end_calls[c].ep \notin active_episodes
            /\ end_calls[c].ep \notin conn_keys
            /\ \A ws \in WS :
                 (subs[ws].ep = end_calls[c].ep
                  /\ subs[ws].state \in {"listening", "exited"})
                 => subs[ws].conn # "open"

\* C6: a subscriber disconnecting never makes a step or an end call fail:
\* a step that found its episode live returns its result, and an end call
\* fails only on a store fault.
C6_DisconnectNeverFailsACall ==
    /\ \A t \in StepCalls : step_calls[t].pc # "error"
    /\ \A c \in EndCalls : end_calls[c].pc = "error" => end_calls[c].err = "store"

\* C7: when a step has returned, its event has been sent to every
\* subscriber that was registered before the step was applied, is still
\* registered and has a working connection.
C7_StepEventReachesEveryone ==
    \A t \in StepCalls :
        (step_calls[t].pc = "done" /\ step_calls[t].step > 0) =>
            \A ws \in WS :
                (/\ subs[ws].ep = step_calls[t].ep
                 /\ subs[ws].state = "listening"
                 /\ subs[ws].conn = "open"
                 /\ subs[ws].applied_at_join < step_calls[t].step
                 /\ Registered(ws, step_calls[t].ep))
                => StepEvent(step_calls[t].step) \in Range(subs[ws].inbox)

\* C8 as stated: a subscriber that joined after k steps were applied
\* receives no event of the steps 1..k.
C8_NoEventOfAppliedSteps ==
    \A ws \in WS : \A i \in StepEventsOf(ws) :
        subs[ws].inbox[i].step > subs[ws].applied_at_join

\* C8 amended: a subscriber receives no event of a step whose broadcast had
\* finished when the subscriber was registered.
C8_NoEventOfReturnedSteps ==
    \A ws \in WS : \A i \in StepEventsOf(ws) :
        subs[ws].inbox[i].step \notin subs[ws].returned_at_join

C8_Witness ==
    \E ws \in WS :
        /\ subs[ws].returned_at_join # {}
        /\ StepEventsOf(ws) # {}

\* C9: subscribe on an episode that is not live sends the error message,
\* closes the caller and registers it nowhere, so it never gets a step or
\* end event; subscribe on a live episode registers the caller, and a
\* registered caller leaves the list only when its connection is gone or
\* when the episode is no longer live.
C9_SubscribeContract ==
    [][/\ \A ws \in WS :
            (subs[ws].state = "new" /\ subs'[ws].state # "new") =>
                IF subs'[ws].ep \in active_episodes
                THEN /\ subs'[ws].state = "listening"
                     /\ subs'[ws].ep \in conn_keys'
                     /\ ws \in Range(conn_list'[subs'[ws].ep])
                ELSE /\ subs'[ws].state = "rejected"
                     /\ UNCHANGED <<conn_keys, conn_list>>
       /\ \A ws \in WS :
            subs'[ws].state = "rejected" =>
                /\ subs'[ws].inbox = <<ErrorMsg>>
                /\ subs'[ws].conn = "closed"
                /\ \A e \in EpisodeIds : ws \notin Range(conn_list'[e])
       /\ \A ws \in WS, e \in EpisodeIds :
            (Registered(ws, e) /\ ~Registered(ws, e)') =>
                (subs[ws].conn # "open" \/ e \notin active_episodes')]_vars

C9_Witness ==
    /\ \E ws \in WS : subs[ws].state = "rejected"
    /\ \E ws \in WS : subs[ws].state = "listening" /\ Len(subs[ws].inbox) > 1

\* C10: a start during which the store is unavailable or fails returns an
\* error and adds nothing to the live registry or to the subscriber lists.
C10_FailedStartRegistersNothing ==
    [][(start_calls' = start_calls + 1 /\ last_start'.fault # 0) =>
         (/\ last_start'.status = "error"
          /\ UNCHANGED <<active_episodes, episode_data, conn_keys, conn_list>>)]_vars

C10_Witness ==
    last_start.status = "error" /\ last_start.fault \in 1..4

\* C11: an episode leaves the live registry only after end has written its
\* final values to the episode row and updated the agent row; an end whose
\* store write fails (or that finds no store) returns an error, broadcasts
\* no end event, closes no subscriber and leaves the episode live.
C11_EndPersistsBeforeRemoval ==
    [][/\ \A e \in EpisodeIds :
            (e \in active_episodes /\ e \notin active_episodes') =>
                /\ store_episodes'[e].final
                /\ store_agents'[episode_data[e].agent_id].updates > 0
       /\ \A c \in EndCalls :
            (end_calls[c].pc = "idle" /\ end_calls'[c].err = "store") =>
                /\ end_calls'[c].pc = "error"
                /\ UNCHANGED <<active_episodes, conn_keys, conn_list, subs>>]_vars

C11_Witness ==
    \E c \in EndCalls :
        /\ supabase
        /\ end_calls[c].pc = "error"
        /\ end_calls[c].err = "store"
        /\ end_calls[c].ep \in active_episodes
        /\ \E ws \in WS : /\ Registered(ws, end_calls[c].ep)
                           /\ subs[ws].conn = "open"
                           /\ EndEvent \notin Range(subs[ws].inbox)

\* C13: a step whose action row did not reach the store (the insert failed,
\* or no store is configured) has still incremented the step counter and
\* written the trust score, broadcasts its event and returns its result:
\* it never ends in an error.
C13_StoreFailureIsNotFatal ==
    \A t \in StepCalls :
        (/\ step_calls[t].step > 0
         /\ [episode_id |-> step_calls[t].ep, step |-> step_calls[t].step]
                \notin store_actions)
        => /\ episode_data[step_calls[t].ep].current_step >= step_calls[t].step
           /\ episode_data[step_calls[t].ep].ppi_score # PpiAbsent
           /\ step_calls[t].pc \in {"bcast", "done"}

\* C12: end sets each tracked average of the agent (return, risk-adjusted
\* return, trust score) to (old * (n - 1) + value) / n, with n the agent's
\* episode count and a missing old average counted as 0; with n = 3,
\* old = 10 and value = 20 the new average is 40/3.
C12_RunningAverages ==
    fn_out.fn = "end_stats" =>
        LET n == fn_in.episodes_trained
            Old(x) == IF x = RatNone THEN Rat(0, 1) ELSE x
            IsNewAverage(new, old, value) ==
                /\ new.den # 0
                /\ RatEq(RatMulInt(new, n),
                         RatAdd(RatMulInt(Old(old), n - 1), value))
                /\ (n = 3 /\ old = Rat(10, 1) /\ RatEq(value, Rat(20, 1)))
                       => 3 * new.num = 40 * new.den
            return == Rat(fn_in.final_pnl * 100, fn_in.initial_balance)
            risk_adjusted ==
                IF fn_in.total_steps > 10
                THEN Rat(return.num * 10, return.den * fn_in.total_steps)
                ELSE return
        IN /\ IsNewAverage(fn_out.irr, fn_in.irr, return)
           /\ IsNewAverage(fn_out.sharpe, fn_in.sharpe, risk_adjusted)
           /\ IsNewAverage(fn_out.ppi_score, fn_in.ppi_score,
                           Rat(fn_in.request_ppi_score, 1))

C12_Witness ==
    /\ fn_out.fn = "end_stats"
    /\ fn_in.episodes_trained = 3
    /\ fn_in.ppi_score = Rat(10, 1)
    /\ fn_in.request_ppi_score = 20
    /\ fn_in.irr = RatNone
    /\ RatEq(fn_out.ppi_score, Rat(40, 3))

\* C14: when the oracle call of a step fails, times out, answers with a
\* status other than 200 or with a malformed action, the step goes on: the
\* oracle's vote is the fallback hold of size 0 and confidence 0.5 whose
\* reasoning marks the fallback, and the final action is the blend of the
\* policy's vote with that hold.
C14_OracleFailureFallsBack ==
    fn_out.fn = "votes" =>
        LET reply == fn_in.reply
            failed == \/ reply.transport \in {"timeout", "error"}
                      \/ reply.status # 200
                      \/ ~reply.json
                      \/ reply.action \notin {"buy", "sell", "hold"}
                      \/ reply.size \notin 0..1000
                      \/ ~reply.has_reasoning
        IN failed =>
             /\ fn_out.grok.type = "hold"
             /\ fn_out.grok.size = 0
             /\ fn_out.grok.confidence = 500
             /\ fn_out.grok.reasoning = "[Grok AI - Fallback]"
             /\ fn_out.action.type = fn_in.rl.type
             /\ 2 * fn_out.action.size = fn_in.rl.size
             /\ fn_out.action.reasoning = "[Hybrid Decision]"

C14_Witness ==
    /\ fn_out.fn = "votes"
    /\ fn_in.reply.transport = "ok"
    /\ fn_in.reply.status = 500
    /\ fn_in.reply.json
    /\ fn_in.reply.action = "buy"
    /\ fn_in.reply.size = 300
    /\ fn_in.reply.has_reasoning
    /\ fn_in.rl.type = "sell"
    /\ fn_out.grok = FallbackAction

\* C15: in the regret update, a forecast that is unavailable (the call
\* raises or times out, or the response is not a 200) replaces the actor's
\* regret by clamp(regret + noise, 0, 1) for a drawn noise, and a forecast
\* that succeeds sets the regret to the returned value; the update never
\* raises.
C15_RegretFallback ==
    fn_out.fn = "regret" =>
        /\ fn_in.reply.kind \in {"error", "status"} =>
              \E noise \in {-3, 2} :
                  fn_out.regret =
                      IF fn_in.regret + noise < 0 THEN 0
                      ELSE IF fn_in.regret + noise > 10 THEN 10
                      ELSE fn_in.regret + noise
        /\ (fn_in.reply.kind = "ok" /\ fn_in.reply.regret # RegretMissing) =>
              fn_out.regret = fn_in.reply.regret

\* C16: every actor's regret is in [0, 1] in every reachable state of the
\* environment, whatever the oracle returns.
C16_RegretInUnitInterval ==
    \A i \in Actors : actor_regrets[i] >= 0 /\ actor_regrets[i] <= 10

\* C17: a step in which, after the regret update, some actor's regret is
\* above 0.7 executes hold whatever was requested: capital unchanged, no
\* trade appended, regret_blocked true; a step in which none is above 0.7
\* has regret_blocked false and executes the requested action.
C17_RegretGate ==
    [][env_current_step' = env_current_step + 1 =>
         IF \E i \in Actors : actor_regrets'[i] > 7
         THEN /\ info'.regret_blocked
              /\ info'.action = "hold"
              /\ capital' = capital
              /\ trades' = trades
         ELSE /\ ~info'.regret_blocked
              /\ \E a \in EnvActions :
                    /\ info'.action = ActionName(a)
                    /\ capital' = CapitalAfter(a, capital)
                    /\ trades' = TradesAfter(a, capital, env_current_step, trades)
                    /\ (a # 0) = (Len(trades') = Len(trades) + 1)]_env_vars

C17_Witness ==
    /\ env_current_step = 1
    /\ info.regret_blocked
    /\ actor_regrets[1] = 8
    /\ \A i \in Actors : i # 1 => actor_regrets[i] = 5
    /\ trades = <<>>
    /\ capital = CAPITAL_ONE

\* C20: on [0, 100] the tier mapping gives every score exactly one of the
\* five tier names, by half-open bins of width 20 (20, 40, 60 and 80 fall
\* in the upper bin); it is monotone in the score, and 100 maps to
\* Self-Actualization.
C20_TierMapping ==
    fn_out.fn = "get_ppi_tier" =>
        LET names == <<"Survival (Physiological)", "Safety", "Belonging",
                       "Esteem", "Self-Actualization">>
            Rank(t) == CHOOSE k \in 1..5 : names[k] = t
            score == fn_in.ppi_score
            bin == IF score = 1000 THEN 5 ELSE score \div 200 + 1
        IN /\ \E k \in 1..5 : fn_out.tier = names[k]
           /\ fn_out.tier = names[bin]
           /\ \A lower \in 0..score :
                 Rank(get_ppi_tier(lower)) <= Rank(fn_out.tier)
           /\ score = 1000 => fn_out.tier = "Self-Actualization"

C20_Witness ==
    /\ fn_out.fn = "get_ppi_tier"
    /\ fn_in.ppi_score = 200
    /\ fn_out.tier = "Safety"

\* C19: the trust composite is in [0, 100] for every input: for the tiered
\* strategy, for the weighted-silo strategy and for the per-step score of
\* the session.
C19_CompositeInRange ==
    fn_out.fn \in {"_calculate_ppi", "calculate_hybrid_ppi", "step_ppi"} =>
        fn_out.composite >= 0 /\ fn_out.composite <= 10000

C29_SafetySubScore ==
    fn_out.fn = "_calculate_ppi" =>
        LET calm == fn_in.volatility < 50
            shallow == fn_in.drawdown < 10
        IN fn_out.safety = IF calm /\ shallow THEN 4000
                           ELSE IF calm \/ shallow THEN 2000 ELSE 0

\* the full share next to a loss, and half the share at a drawdown of
\* exactly 10
C29_Witness ==
    /\ fn_out.fn = "_calculate_ppi"
    /\ fn_in.drawdown = 10 /\ fn_in.volatility = 49 /\ fn_in.pnl_pct < 0
    /\ fn_out.safety = 2000

\* C27 as stated: the blend's kind is buy if the average of the two values
\* (+1, 0, -1) is > 0.3, sell if it is < -0.3 and hold otherwise; its size
\* is the mean of the two sizes and its confidence the mean of the two
\* confidences times 1.0 when the kinds are equal and 0.5 otherwise.
C27_BlendExact ==
    fn_out.fn = "votes" =>
        LET rl == fn_in.rl
            grok == fn_out.grok
            agreement2 == IF rl.type = grok.type THEN 2 ELSE 1
        IN /\ 2 * fn_out.action.size = rl.size + grok.size
           /\ 4 * fn_out.action.confidence =
                  (rl.confidence + grok.confidence) * agreement2

\* C27, amended: the kind is as stated; the size is the mean of the two
\* sizes and the confidence the weighted mean of the two confidences, each
\* rounded to a nearest thousandth.  Policy buy with oracle sell gives
\* hold, policy buy with oracle buy gives buy.
C27_BlendRounded ==
    fn_out.fn = "votes" =>
        LET rl == fn_in.rl
            grok == fn_out.grok
            value(t) == CASE t = "buy" -> 1 [] t = "hold" -> 0 [] t = "sell" -> -1
            sum == value(rl.type) + value(grok.type)
            agreement2 == IF rl.type = grok.type THEN 2 ELSE 1
            size_error == 2 * fn_out.action.size - (rl.size + grok.size)
            confidence_error == 4 * fn_out.action.confidence
                                - (rl.confidence + grok.confidence) * agreement2
        IN /\ fn_out.action.type =
                  IF sum >= 1 THEN "buy" ELSE IF sum <= -1 THEN "sell" ELSE "hold"
           /\ (rl.type = "buy" /\ grok.type = "sell") => fn_out.action.type = "hold"
           /\ (rl.type = "buy" /\ grok.type = "buy") => fn_out.action.type = "buy"
           /\ size_error \in -1..1
           /\ confidence_error \in -2..2

\* the policy votes buy, the oracle votes sell: hold, at half the mean
\* confidence
C27_Witness ==
    /\ fn_out.fn = "votes"
    /\ fn_in.rl.type = "buy" /\ fn_out.grok.type = "sell"
    /\ fn_out.action.type = "hold"
    /\ fn_out.action.confidence = 450

\* C21: every observation of the actor-simulation environment has exactly
\* 42 entries: the seven trust silos, the six regrets, the six normalized
\* inventories, the six last actions, the five market indicators, in this
\* order, and zeros in every position after them.
C21_ObservationLayout ==
    fn_out.fn = "_get_obs" =>
        LET obs == fn_out.obs
        IN /\ Len(obs) = 42
           /\ \A i \in 1..7 : obs[i] = 1000 * fn_in.ppi_silos[i]
           /\ \A i \in 1..6 :
                 /\ obs[7 + i] = 1000 * fn_in.actor_regrets[i]
                 /\ obs[13 + i] = fn_in.actor_inventory[i]
                 /\ obs[19 + i] = 10000 * fn_in.actor_last_action[i]
           /\ obs[26] = 10 * fn_in.dxy /\ obs[27] = 10 * fn_in.vix
           /\ obs[28] = 100 * fn_in.fear_greed
           /\ 10 * obs[29] = fn_in.price
           /\ obs[30] = fn_in.volume_term
           /\ \A i \in 31..42 : obs[i] = 0

\* an observation taken after a step: silos, regrets and last actions are
\* all populated
C21_Witness ==
    /\ fn_out.fn = "_get_obs"
    /\ fn_in.ppi_silos[1] = 80
    /\ fn_in.actor_regrets[4] = 12
    /\ fn_in.actor_last_action[3] = 2
    /\ fn_out.obs[10] = -3000 /\ fn_out.obs[42] = 0

\* C24: a report request for an unknown episode id and a stats request for
\* an unknown agent id are answered with a not-found error (404), not with
\* an internal error, when the store is configured and answers.
C24_UnknownIdIsNotFound ==
    /\ (supabase /\ ~report_reply.store_failed /\ report_reply.op = "report"
            /\ report_reply.id \notin 1..Len(store_episodes))
          => report_reply.status = 404
    /\ (supabase /\ ~report_reply.store_failed /\ report_reply.op = "stats"
            /\ report_reply.id \notin DOMAIN store_agents)
          => report_reply.status = 404

\* C25: the report operation is read-only: a report request inserts,
\* updates or deletes no record of the store and changes no live session.
C25_ReportIsReadOnly ==
    [][report_reply'.op = "report" =>
          UNCHANGED <<store_agents, store_episodes, store_actions,
                      store_reports, active_episodes, episode_data>>]_<<vars, report_vars>>

\* C23: the step indices returned for an episode are exactly 1, 2, 3, ...
\* in the order the steps were applied: no two step calls of an episode
\* carry the same index, and when a call has returned index k, every index
\* below k was returned too or belongs to a call that is still broadcasting.
C23_StepIndicesConsecutive ==
    LET Applied(e) == {t \in StepCalls : step_calls[t].ep = e
                          /\ step_calls[t].pc \in {"bcast", "done", "error"}}
        Returning(e) == {t \in Applied(e) : step_calls[t].pc # "error"}
    IN \A e \in EpisodeIds :
         /\ \A t, u \in Applied(e) :
               step_calls[t].step = step_calls[u].step => t = u
         /\ \A t \in Applied(e) :
               step_calls[t].pc = "done" =>
                   \A k \in 1..step_calls[t].step :
                       \E u \in Returning(e) : step_calls[u].step = k

\* C26: list-active returns exactly the episodes that were started
\* successfully and that no end request has removed (an end that removed
\* the entry is closing the sockets or has returned successfully), each
\* with the number of steps applied to it; a transition of a step call or
\* of a subscriber alone never adds or removes an entry.
C26_ListActive ==
    /\ [](LET Started == 1..Len(store_episodes)
              EndRemoved == {end_calls[c].ep : c \in
                               {c \in EndCalls : end_calls[c].pc \in {"closing", "done"}}}
              AppliedTo(e) == {t \in StepCalls : step_calls[t].ep = e
                                 /\ step_calls[t].pc \in {"bcast", "done", "error"}}
          IN /\ DOMAIN GetActiveEpisodes = Started \ EndRemoved
             /\ \A e \in DOMAIN GetActiveEpisodes :
                   GetActiveEpisodes[e] = Cardinality(AppliedTo(e)))
    /\ [][(start_calls' = start_calls /\ end_calls' = end_calls)
             => DOMAIN GetActiveEpisodes' = DOMAIN GetActiveEpisodes]_vars

\* a live episode with two applied steps and a registered subscriber is
\* listed with current_step 2
C26_Witness ==
    /\ DOMAIN GetActiveEpisodes = {1}
    /\ GetActiveEpisodes[1] = 2
    /\ \E w \in WS : subs[w].state # "new" /\ subs[w].ep = 1

\* C22: an episode's step counter never exceeds the configured maximum
\* number of steps (the index of the last row of the data frame, or
\* max_steps of TradingEnv), also for step calls made after the limit was
\* reached.
C22_StepCounterBounded ==
    env_current_step <=
        (IF env_class = "TradingEnv" THEN TE_MAX_STEPS ELSE EpisodeBars - 1)

\* C28: a step is stable exactly when at least 3 of the 6 actors have a
\* regret strictly below 0.3 after the step's updates; the stable count
\* grows by one on exactly the stable steps, so it never exceeds the number
\* of steps taken and the stability ratio stays in [0, 1].
C28_StableSteps ==
    /\ [](nash_equilibrium_count >= 0
           /\ nash_equilibrium_count <= env_current_step)
    /\ [][(env_class = "SentientTraderFinRLEnv"
               /\ env_current_step' = env_current_step + 1) =>
             LET below == Cardinality({i \in Actors : actor_regrets'[i] < 3})
             IN /\ info'.nash_stable = (below >= 3)
                /\ nash_equilibrium_count' =
                      nash_equilibrium_count + (IF below >= 3 THEN 1 ELSE 0)
                /\ actor_regrets' = <<1, 1, 1, 9, 9, 9>> => info'.nash_stable
                /\ actor_regrets' = <<1, 1, 4, 9, 9, 9>> => ~info'.nash_stable
          ]_env_vars

\* two steps, the second one stable with regrets [0.1, 0.1, 0.1, 0.9, 0.9,
\* 0.9], the first one not
C28_Witness ==
    /\ env_current_step = 2
    /\ nash_equilibrium_count = 1
    /\ actor_regrets = <<1, 1, 1, 9, 9, 9>>
    /\ info.nash_stable

\* C30: within an episode the trade log is append-only: a step appends
\* exactly one record (step index, action kind, size) when the executed
\* action is not hold and none when it is hold or was blocked by the regret
\* gate, and leaves the earlier records as they are; reset empties the log.
C30_TradeLogAppendOnly ==
    [][IF env_current_step' = 0
       THEN trades' = <<>>
       ELSE /\ Len(trades') \in {Len(trades), Len(trades) + 1}
            /\ SubSeq(trades', 1, Len(trades)) = trades
            /\ (Len(trades') = Len(trades) + 1) = (info'.action # "hold")
            /\ info'.regret_blocked => trades' = trades
            /\ Len(trades') = Len(trades) + 1 =>
                  LET record == trades'[Len(trades')]
                  IN /\ record.step = env_current_step
                     /\ record.action = info'.action
                     /\ record.size # 0
      ]_env_vars

\* three steps of the actor-simulation environment: two trades, then a
\* step blocked by the regret gate
C30_Witness ==
    /\ env_class = "SentientTraderFinRLEnv"
    /\ env_current_step = 3
    /\ Len(trades) = 2
    /\ trades[1].step = 0 /\ trades[2].step = 1
    /\ info.regret_blocked

\* C31: after every step the last action recorded for the agent's own actor
\* equals the action the step executed; here in the form "the recorded
\* action is hold exactly when the executed action was hold".
C31_OwnActionRecorded ==
    (env_class = "SentientTraderFinRLEnv" /\ info.action # "none")
        => (actor_last_action[YOU] = 0 <=> info.action = "hold")

\* C32: every actor's inventory is >= 0 in every reachable state, and a
\* step never decreases the inventory of the Whale or of the Institution,
\* adds the fixed 0.1 to the Institution's and records a buy for it.
C32_InventoryRules ==
    /\ [](\A i \in Actors : actor_inventory[i] >= 0)
    /\ [][env_current_step' = env_current_step + 1
            => /\ actor_inventory'[WHALE] >= actor_inventory[WHALE]
               /\ actor_inventory'[ETF] = actor_inventory[ETF] + 10
               /\ actor_last_action'[ETF] = 1]_env_vars
\* Retail sold in panic six times in a row, the last time with nothing
\* left, and the Whale has bought
C32_Witness ==
    /\ env_current_step = 6
    /\ actor_inventory[RETAIL] = 0
    /\ actor_last_action[RETAIL] = 2
    /\ actor_inventory[WHALE] > InitialInventory[WHALE]

\* C33 as stated: reset puts the environment into the same state whatever
\* happened before it, the regrets included; here for a reset that follows
\* a reset.
C33_ResetSameState ==
    [][(/\ env_class = "SentientTraderFinRLEnv"
        /\ info = NoInfo /\ ppi_silos # NoSilos
        /\ info' = NoInfo)
          => actor_regrets' = actor_regrets]_env_vars

C36_ColabStateLength ==
    fn_out.fn = "get_vo_state" => Len(fn_out.state) = COLAB_OBS_DIM

\* C37: a step call that was suspended on the oracle call when end removed
\* its episode from the registry does not increment the step counter,
\* writes no action row and does not return a step result; and no
\* subscriber receives a step event after an end event.
C37_NoStepAfterEnd ==
    /\ [][\A t \in StepCalls :
            (/\ step_calls[t].pc = "grok"
             /\ step_calls'[t].pc # "grok"
             /\ step_calls[t].ep \notin active_episodes)
               => /\ episode_data' = episode_data
                  /\ store_actions' = store_actions
                  /\ step_calls'[t].pc \notin {"bcast", "done"}]_vars
    /\ [](\A ws \in WS : \A i, j \in 1..Len(subs[ws].inbox) :
             (subs[ws].inbox[i].type = "end" /\ subs[ws].inbox[j].type = "step")
                => j < i)

\* C38: for each episode the agent's running averages are updated at most
\* once and at most one end event is broadcast, and at most one end call
\* reports success, also when two end calls for the episode overlap.
C38_EndOnce ==
    /\ \A name \in AgentNames :
          store_agents[name].updates
            <= Cardinality({e \in 1..Len(store_episodes) :
                               /\ store_episodes[e].agent_id = name
                               /\ store_episodes[e].final})
    /\ \A ws \in WS :
          Cardinality({i \in 1..Len(subs[ws].inbox) :
                          subs[ws].inbox[i].type = "end"}) <= 1
    /\ \A c, d \in EndCalls :
          (/\ end_calls[c].pc = "done" /\ end_calls[d].pc = "done"
           /\ end_calls[c].ep = end_calls[d].ep) => c = d

\* C39: when no end call is under way and none met a store failure, the
\* agent's running average of the trust score is the arithmetic mean of
\* the trust scores of the agent's ended episodes.
C39_AverageIsMean ==
    (\A c \in EndCalls :
        end_calls[c].pc \in {"idle", "done", "notfound"}) =>
    \A name \in AgentNames :
        LET ended == {e \in 1..Len(store_episodes) :
                         /\ store_episodes[e].agent_id = name
                         /\ store_episodes[e].final}
            total == (IF 1 \in ended THEN store_episodes[1].ppi_score ELSE 0)
                     + (IF 2 \in ended THEN store_episodes[2].ppi_score ELSE 0)
        IN ended # {} =>
             /\ store_agents[name].ppi_score.den # 0
             /\ store_agents[name].ppi_score.num * Cardinality(ended)
                  = total * store_agents[name].ppi_score.den

\* C40: after any sequence of start calls the agent's lifetime episode
\* count is the number of episode records of the agent in the store, and
\* their sequence numbers are 1, 2, 3, ... without gaps or duplicates.
C40_CountMatchesRecords ==
    \A name \in AgentNames :
        LET rows == {e \in 1..Len(store_episodes) :
                        store_episodes[e].agent_id = name}
        IN /\ store_agents[name].episodes_trained = Cardinality(rows)
           /\ {store_episodes[e].episode_number : e \in rows}
                 = 1..Cardinality(rows)
====
